---- MODULE Spec2Model ----
(***************************************************************************)
(* A model of the IVOD reconciliation engine (crawler/ivod): the Record    *)
(* Assembler (core.py, crawler.py), the SQLAlchemy session it writes to,   *)
(* the Batch Processor, the Failure Ledger and the four workflows of       *)
(* tasks.py (Full, Incremental, Retry, Fix).                               *)
(*                                                                         *)
(* Strings are sequences of characters, so that joining, trimming and      *)
(* emptiness are computed and not assumed.  Dates are day numbers.  Every  *)
(* workflow is single-threaded: one action is one iteration of its         *)
(* per-record loop, including every call that iteration makes.             *)
(***************************************************************************)
EXTENDS Integers, Sequences, FiniteSets, TLC

VARIABLES
    wf,        \* the workflow whose run is in progress: "assemble", "full", ...
    pc,        \* position of the run: "start", "loop", "done", "raised"
    input,     \* what the run is given: the ids the API lists, or run_fix's arguments
    todo,      \* the rest of the traversal of the run (ids or tagged rows)
    db,        \* the Store session: committed rows, transaction view, pending inserts
    bp,        \* the Batch Processor: buffer and counters
    ledger,    \* the Failure Ledger files: per file, a sequence of lines
    breaker,   \* Retry's per-kind circuit breaker
    clock,     \* datetime.now()
    doc,       \* the upstream document SpecAssemble and SpecUpsert assemble
    rec,       \* the result of the last process_ivod call
    hist,      \* observations of the run: what was fetched, enqueued, returned
    es         \* the search index, and the configuration the Index Aligner reads

vars == <<wf, pc, input, todo, db, bp, ledger, breaker, clock, doc, rec, hist, es>>

(***************************************************************************)
(* Bounds of the model.                                                    *)
(***************************************************************************)
MaxItems == 2      \* longest whisperx list and longest gazette block list in SpecAssemble
MaxSpeech == 2     \* longest stdout of the speech page, in tokens
MaxDate == 4       \* calendar dates are the days 1..MaxDate
MaxRetryItems == 5 \* most tagged items of a Retry run in SpecRetry
MaxId == 5         \* ivod ids are 1..MaxId
BatchSize == 2     \* the model's batch_size (the code's are 100, 50, 20 and 30)
CommitInterval == 2 \* the model's commit_interval (the code's is 10)
MaxClock == 2      \* datetime.now() takes the values 0..MaxClock
MaxFullItems == 4  \* most ids the API lists for a Full run in SpecFull
MaxFullId == 4     \* the ids the API lists in SpecFull are 1..MaxFullId
MaxFixLines == 2   \* most lines of a ledger file, and most ids given to run_fix, in SpecFix
MaxFixId == 2      \* the ids of SpecFix are 1..MaxFixId
MaxWork == 2       \* most ids of a Full, Incremental or Fix run, and their largest id, in SpecWork
MaxWorkRows == 4   \* most failed rows of a Retry run in SpecWork
EsBatchSize == 2   \* the model's batch_size of bulk_index_to_elasticsearch (the code's is 100)
RecentWindow == 1  \* the model's length of the Aligner's "past 7 days", in clock ticks
MaxAlignCalls == 2 \* most alignments in a row in SpecAlign
MaxAlignId == 2    \* the rows of SpecAlign have the ids 1..MaxAlignId

Missing == "missing"   \* the key is absent from the JSON object
Null == "null"         \* the key is present with a null (None) value
Raised == "raised"     \* the call raised instead of returning

(***************************************************************************)
(* Strings.                                                                *)
(***************************************************************************)
Chars == {"a", " ", "\n"}
EmptyStr == <<>>
Str(n) == UNION {[1..k -> Chars] : k \in 0..n}

IsSpace(c) == c \in {" ", "\n"}

RECURSIVE LStrip(_)
LStrip(s) == IF s # <<>> /\ IsSpace(Head(s)) THEN LStrip(Tail(s)) ELSE s

RECURSIVE RStrip(_)
RStrip(s) == IF s # <<>> /\ IsSpace(s[Len(s)]) THEN RStrip(SubSeq(s, 1, Len(s) - 1)) ELSE s

\* str.strip()
Strip(s) == RStrip(LStrip(s))

\* sep.join(parts)
RECURSIVE Join(_, _)
Join(sep, parts) ==
    IF parts = <<>> THEN EmptyStr
    ELSE IF Len(parts) = 1 THEN parts[1]
    ELSE parts[1] \o sep \o Join(sep, Tail(parts))

(***************************************************************************)
(* Upstream documents (the "data" object of GET /v2/ivods/{id}) and the    *)
(* speech page.  A JSON value that may be absent or null carries its kind  *)
(* in k; v, items, blocks, lines hold the value when there is one.         *)
(***************************************************************************)
JStr(s) == [k |-> "str", v |-> s]
JMissing == [k |-> Missing, v |-> EmptyStr]
JNull == [k |-> Null, v |-> EmptyStr]

\* item["text"] of a whisperx element: a string, absent, or null
TextValues == {JStr(<<>>), JStr(<<"a">>), JMissing, JNull}

SeqsUpTo(S, n) == UNION {[1..k -> S] : k \in 0..n}

\* js["transcript"]: absent, null, or an object whose "whisperx" is absent, null or a list
NoTranscript == [k |-> Missing, wk |-> Missing, items |-> <<>>]
Whisperx(items) == [k |-> "obj", wk |-> "list", items |-> items]
Transcripts ==
    {NoTranscript,
     [k |-> Null, wk |-> Missing, items |-> <<>>],
     [k |-> "obj", wk |-> Missing, items |-> <<>>],
     [k |-> "obj", wk |-> Null, items |-> <<>>]}
    \cup {Whisperx(items) : items \in SeqsUpTo(TextValues, MaxItems)}

\* one element of gazette.blocks: a list of strings, or null
Block(lines) == [k |-> "list", lines |-> lines]
BlockValues ==
    {[k |-> Null, lines |-> <<>>]}
    \cup {Block(l) : l \in {<<>>, <<EmptyStr>>, << <<"a">> >>, <<EmptyStr, EmptyStr>>}}

\* js["gazette"]: absent, null, or an object whose "blocks" is absent, null or a list
NoGazette == [k |-> Missing, bk |-> Missing, blocks |-> <<>>]
Blocks(bs) == [k |-> "obj", bk |-> "list", blocks |-> bs]
Gazettes ==
    {NoGazette,
     [k |-> Null, bk |-> Missing, blocks |-> <<>>],
     [k |-> "obj", bk |-> Missing, blocks |-> <<>>],
     [k |-> "obj", bk |-> Null, blocks |-> <<>>]}
    \cup {Blocks(bs) : bs \in SeqsUpTo(BlockValues, MaxItems)}

\* the curl run of fetch_ly_speech: its outcome and its stdout, where the
\* token "<br />" stands for the HTML line break
SpeechTokens == {"a", " ", "<br />"}
NoSpeech == [run |-> "ok", stdout |-> <<>>]
Speeches ==
    {[run |-> "ok", stdout |-> s] : s \in SeqsUpTo(SpeechTokens, MaxSpeech)}
    \cup {[run |-> "nonzero", stdout |-> <<>>], [run |-> "exception", stdout |-> <<>>]}

\* js["日期"] and js["會議時間"]: an ISO-8601 string of day d, absent or empty, or malformed
DateOk(d) == [k |-> "ok", d |-> d]
DateMissing == [k |-> Missing, d |-> 0]
DateMalformed == [k |-> "malformed", d |-> 0]

MkDoc(f, d, m, t, g, s) ==
    [fetch |-> f, date |-> d, meeting_time |-> m, title |-> "t",
     transcript |-> t, gazette |-> g, speech |-> s]

\* Documents that differ in a part the assembler reads: a failing header with a
\* fixed body; a good header with every transcript, and either a gazette
\* (the speech page is then not fetched) or no gazette and every speech page.
DocsOn(date) ==
    {MkDoc("error", DateOk(date), DateOk(date), NoTranscript, NoGazette, NoSpeech),
     MkDoc("ok", DateMissing, DateOk(date), NoTranscript, NoGazette, NoSpeech),
     MkDoc("ok", DateOk(date), DateMissing, NoTranscript, NoGazette, NoSpeech),
     MkDoc("ok", DateMalformed, DateOk(date), NoTranscript, NoGazette, NoSpeech),
     MkDoc("ok", DateOk(date), DateMalformed, NoTranscript, NoGazette, NoSpeech)}
    \cup {MkDoc("ok", DateOk(date), DateOk(date), t, g, NoSpeech) :
            t \in Transcripts, g \in Gazettes \ {NoGazette}}
    \cup {MkDoc("ok", DateOk(date), DateOk(date), t, NoGazette, s) :
            t \in Transcripts, s \in Speeches}

(***************************************************************************)
(* The Record Assembler: core.py and the fetch_ai / fetch_ly of crawler.py *)
(***************************************************************************)
Absent == -1           \* a retries key that the record does not carry
NoObj == [present |-> FALSE, ai_retries |-> 0, ly_retries |-> 0]
Obj(a, l) == [present |-> TRUE, ai_retries |-> a, ly_retries |-> l]

NoStamp == [t |-> 0, zone |-> "none"]
NoRec ==
    [ivod_id |-> 0, date |-> 0, title |-> "",
     ai_transcript |-> EmptyStr, ai_status |-> "", ai_retries |-> Absent,
     ly_transcript |-> EmptyStr, ly_status |-> "", ly_retries |-> Absent,
     last_updated |-> NoStamp]

\* fetch_ivod_info raises on every transport, parsing and API error
FetchIvodInfoRaises(d) == d.fetch # "ok"

\* validate_ivod_data raises IVODDataError when a required field is absent or empty
ValidateRaises(d) == d.date.k = Missing \/ d.meeting_time.k = Missing

\* parse_datetime_fields raises IVODParsingError on a malformed value
ParseRaises(d) == d.date.k = "malformed" \/ d.meeting_time.k = "malformed"

extract_basic_metadata(d, ivod_id) ==
    [NoRec EXCEPT !.ivod_id = ivod_id, !.date = d.date.d, !.title = d.title]

\* item.get("text", "")
TextOf(item) == IF item.k = "str" THEN item.v ELSE EmptyStr

\* "".join over a list one of whose values is None raises TypeError
JoinRaises(items) == \E i \in 1..Len(items) : items[i].k = Null

\* extract_ai_transcript: js.get("transcript", {}).get("whisperx", []), outside any try
ExtractAiRaises(d) ==
    \/ d.transcript.k = Null
    \/ d.transcript.k = "obj" /\ d.transcript.wk = Null
    \/ d.transcript.k = "obj" /\ d.transcript.wk = "list" /\ JoinRaises(d.transcript.items)

extract_ai_transcript(d) ==
    IF d.transcript.k = "obj" /\ d.transcript.wk = "list"
    THEN Join(EmptyStr, [i \in 1..Len(d.transcript.items) |-> TextOf(d.transcript.items[i])])
    ELSE EmptyStr

\* The two except branches of fetch_ai / fetch_ly do the same: empty the
\* transcript, mark it failed, and count the failure on obj when one is given,
\* else seed the record's counter with 1.
AiFailed(r, obj) ==
    [rec |-> [r EXCEPT !.ai_transcript = EmptyStr, !.ai_status = "failed",
                       !.ai_retries = IF obj.present THEN @ ELSE 1],
     obj |-> IF obj.present THEN [obj EXCEPT !.ai_retries = @ + 1] ELSE obj]

LyFailed(r, obj) ==
    [rec |-> [r EXCEPT !.ly_transcript = EmptyStr, !.ly_status = "failed",
                       !.ly_retries = IF obj.present THEN @ ELSE 1],
     obj |-> IF obj.present THEN [obj EXCEPT !.ly_retries = @ + 1] ELSE obj]

\* Whether fetch_ai takes its success branch: transcript and whisperx are truthy
\* and the join does not raise.
AiSucceeds(d) ==
    /\ d.transcript.k = "obj"
    /\ d.transcript.wk = "list"
    /\ d.transcript.items # <<>>
    /\ ~JoinRaises(d.transcript.items)

fetch_ai(d, r, obj) ==
    IF AiSucceeds(d)
    THEN [rec |-> [r EXCEPT !.ai_transcript = extract_ai_transcript(d),
                            !.ai_status = "success", !.ai_retries = 0],
          obj |-> obj]
    ELSE AiFailed(r, obj)

\* res.stdout.replace('<br />', "\n")
ReplaceBr(s) == [i \in 1..Len(s) |-> IF s[i] = "<br />" THEN "\n" ELSE s[i]]

fetch_ly_speech(sp) == IF sp.run = "ok" THEN Strip(ReplaceBr(sp.stdout)) ELSE EmptyStr

\* "\n\n".join("\n".join(b) for b in blocks)
JoinBlocks(blocks) ==
    Join(<<"\n", "\n">>, [i \in 1..Len(blocks) |-> Join(<<"\n">>, blocks[i].lines)])

\* Whether fetch_ly takes the gazette branch and succeeds in it.
GazetteSucceeds(d) ==
    /\ d.gazette.k = "obj"
    /\ d.gazette.bk = "list"
    /\ d.gazette.blocks # <<>>
    /\ \A i \in 1..Len(d.gazette.blocks) : d.gazette.blocks[i].k = "list"

\* Whether fetch_ly calls fetch_ly_speech: only when js has no "gazette" key.
CallsSpeech(d) == d.gazette.k = Missing

fetch_ly(d, r, obj) ==
    IF GazetteSucceeds(d)
    THEN [rec |-> [r EXCEPT !.ly_transcript = JoinBlocks(d.gazette.blocks),
                            !.ly_status = "success", !.ly_retries = 0],
          obj |-> obj]
    ELSE IF CallsSpeech(d) /\ Strip(fetch_ly_speech(d.speech)) # EmptyStr
    THEN [rec |-> [r EXCEPT !.ly_transcript = fetch_ly_speech(d.speech),
                            !.ly_status = "success", !.ly_retries = 0],
          obj |-> obj]
    ELSE LyFailed(r, obj)

\* add_transcript_statuses: both fetches run with obj = None
add_transcript_statuses(d, r) == fetch_ly(d, fetch_ai(d, r, NoObj).rec, NoObj).rec

\* add_timestamp: datetime.now(UTC+8)
add_timestamp(r, now) == [r EXCEPT !.last_updated = [t |-> now, zone |-> "+08:00"]]

ProcessIvodRaises(d) ==
    FetchIvodInfoRaises(d) \/ ValidateRaises(d) \/ ParseRaises(d) \/ ExtractAiRaises(d)

\* process_ivod: the assembled record, or raised
process_ivod(d, ivod_id, now) ==
    IF ProcessIvodRaises(d)
    THEN [raised |-> TRUE, rec |-> NoRec]
    ELSE [raised |-> FALSE,
          rec |-> add_timestamp(
                     add_transcript_statuses(d,
                         [extract_basic_metadata(d, ivod_id)
                             EXCEPT !.ai_transcript = extract_ai_transcript(d)]),
                     now)]

(***************************************************************************)
(* The Store: the table ivod_transcripts behind one SQLAlchemy session     *)
(* (autoflush on, as sessionmaker(bind=engine) gives).                     *)
(*   rows     what is committed, per id (NoRec: no row)                    *)
(*   tx       what the session's transaction sees: rows plus its flushed   *)
(*            inserts and its updates                                      *)
(*   pending  objects given to db.add() and not flushed yet                *)
(*   inactive a flush failed: every use raises until rollback()            *)
(*   open     the session was not closed                                   *)
(***************************************************************************)
Ids == 1..MaxId

HasRow(table, id) == table[id].ivod_id # 0

EmptyTable == [i \in Ids |-> NoRec]

\* An INSERT violates the primary key when the id has a row in the transaction
\* or is inserted twice by the same flush.
PkConflict(d) ==
    \/ \E i \in 1..Len(d.pending) : HasRow(d.tx, d.pending[i].ivod_id)
    \/ \E i, j \in 1..Len(d.pending) : i < j /\ d.pending[i].ivod_id = d.pending[j].ivod_id

RECURSIVE InsertAll(_, _)
InsertAll(table, objs) ==
    IF objs = <<>> THEN table
    ELSE InsertAll([table EXCEPT ![Head(objs).ivod_id] = Head(objs)], Tail(objs))

\* A rollback that loses what was committed
RollbackDropsRows(d) ==
    [d EXCEPT !.rows = EmptyTable, !.tx = EmptyTable, !.pending = <<>>, !.inactive = FALSE]

\* Session.rollback()
SessRollback(d) == [d EXCEPT !.tx = d.rows, !.pending = <<>>, !.inactive = FALSE]

\* Session.flush(): a failed flush rolls the transaction back and leaves the
\* session inactive
SessFlush(d) ==
    IF d.inactive THEN [db |-> d, raised |-> TRUE]
    ELSE IF PkConflict(d)
    THEN [db |-> [d EXCEPT !.tx = d.rows, !.pending = <<>>, !.inactive = TRUE], raised |-> TRUE]
    ELSE [db |-> [d EXCEPT !.tx = InsertAll(d.tx, d.pending), !.pending = <<>>], raised |-> FALSE]

\* db.get(IVODTranscript, id) and db.query(IVODTranscript).filter_by(ivod_id=id).first():
\* autoflush (f is its outcome), then the row the transaction sees
FlushedGet(f, id) ==
    [db |-> f.db, raised |-> f.raised, obj |-> IF f.raised THEN NoRec ELSE f.db.tx[id]]

SessGet(d, id) == FlushedGet(SessFlush(d), id)

\* db.commit(): flush (f is its outcome), then COMMIT; ok is whether the
\* database accepts the COMMIT, rows what was committed before
FlushedCommit(f, rows, ok) ==
    IF f.raised THEN f
    ELSE IF ~ok THEN [db |-> [f.db EXCEPT !.tx = rows], raised |-> TRUE]
    ELSE [db |-> [f.db EXCEPT !.rows = f.db.tx], raised |-> FALSE]

SessCommit(d, ok) == FlushedCommit(SessFlush(d), d.rows, ok)

\* db.close()
SessClose(d) == [SessRollback(d) EXCEPT !.open = FALSE]

NewSession(rows) ==
    [rows |-> rows, tx |-> rows, pending |-> <<>>, inactive |-> FALSE, open |-> TRUE]

(***************************************************************************)
(* The Batch Processor (tasks.py, class BatchProcessor).                   *)
(* A buffered item is (record_data, ivod_id): data holds the values, keys  *)
(* the names of the fields record_data carries (Incremental enqueues       *)
(* partial records), id the ivod_id argument, 0 for None.                  *)
(***************************************************************************)
AllKeys ==
    {"ivod_id", "date", "title", "ai_transcript", "ai_status", "ai_retries",
     "ly_transcript", "ly_status", "ly_retries", "last_updated"}
AiKeys == {"ai_transcript", "ai_status", "ai_retries"}
LyKeys == {"ly_transcript", "ly_status", "ly_retries"}

Item(data, keys, id) == [data |-> data, keys |-> keys, id |-> id]

NewBatchProcessor ==
    [batch_buffer |-> <<>>, batch_count |-> 0, total_processed |-> 0, total_errors |-> 0]

\* A clock that runs backwards
ReversedNow(now) == [t |-> MaxClock - now, zone |-> "naive"]

\* datetime.now(): local time without a zone
LocalNow(now) == [t |-> now, zone |-> "naive"]

\* An update that counts the upserts of a row in ai_retries
UpdateCounting(row, item, now) == [row EXCEPT !.ai_retries = @ + 1]

\* for k, v in record_data.items(): setattr(obj, k, v); obj.last_updated = datetime.now()
UpdateRow(row, item, now) ==
    [[f \in DOMAIN row |-> IF f \in item.keys THEN item.data[f] ELSE row[f]]
        EXCEPT !.last_updated = LocalNow(now)]

\* record_data["last_updated"] = datetime.now(): the dict in the buffer is changed
Stamped(item, now) ==
    [item EXCEPT !.data.last_updated = LocalNow(now), !.keys = @ \cup {"last_updated"}]

\* IVODTranscript built from record_data: columns the record does not carry take their defaults
ColumnDefaults == [NoRec EXCEPT !.ai_status = "pending", !.ai_retries = 0,
                                !.ly_status = "pending", !.ly_retries = 0]
NewObject(item) ==
    [f \in DOMAIN NoRec |-> IF f \in item.keys THEN item.data[f] ELSE ColumnDefaults[f]]

\* One turn of the loop of _process_batch over item number i of the buffer.
\* st = [db, buffer, processed, errors]; g is the outcome of db.get, which the
\* loop calls only when the item has an ivod_id.
ApplyGot(st, i, now, item, g) ==
    IF item.id # 0 /\ g.raised
    THEN [st EXCEPT !.db = g.db, !.errors = @ + 1]
    ELSE IF item.id # 0 /\ HasRow(g.db.tx, item.id)
    THEN [st EXCEPT !.db = [g.db EXCEPT !.tx[item.id] = UpdateRow(g.obj, item, now)],
                    !.processed = @ + 1]
    ELSE [st EXCEPT !.db = [(IF item.id # 0 THEN g.db ELSE st.db)
                               EXCEPT !.pending = Append(@, NewObject(Stamped(item, now)))],
                    !.buffer[i] = Stamped(item, now),
                    !.processed = @ + 1]

ApplyItem(st, i, now) == ApplyGot(st, i, now, st.buffer[i], SessGet(st.db, st.buffer[i].id))

RECURSIVE ApplyItems(_, _, _)
ApplyItems(st, i, now) ==
    IF i > Len(st.buffer) THEN st ELSE ApplyItems(ApplyItem(st, i, now), i + 1, now)

\* The counters of _process_batch after its loop (lines 79-84)
Counted(b, st) ==
    [b EXCEPT !.batch_buffer = st.buffer,
              !.batch_count = @ + 1,
              !.total_processed = st.processed,
              !.total_errors = st.errors]

\* The outcome of the commit c of a batch: the buffer is cleared after a
\* commit that succeeded; one that failed is rolled back and raised again
Committed(counted, c) ==
    IF c.raised
    THEN [bp |-> counted, db |-> SessRollback(c.db), raised |-> TRUE, commits |-> 1]
    ELSE [bp |-> [counted EXCEPT !.batch_buffer = <<>>], db |-> c.db, raised |-> FALSE,
          commits |-> 1]

\* An end of batch that commits after every batch
CommitEveryBatch(counted, d, commitOk) == Committed(counted, SessCommit(d, commitOk))

\* The end of _process_batch (lines 86-92): commit every commit_interval
\* batches, clear the buffer
EndBatch(counted, d, commitOk) ==
    IF counted.batch_count % CommitInterval = 0
    THEN Committed(counted, SessCommit(d, commitOk))
    ELSE [bp |-> [counted EXCEPT !.batch_buffer = <<>>], db |-> d, raised |-> FALSE,
          commits |-> 0]

Looped(b, st, commitOk) == EndBatch(Counted(b, st), st.db, commitOk)

\* BatchProcessor._process_batch; commitOk is whether the database accepts the
\* commit, should this batch reach one.  Result: [bp, db, raised, commits],
\* commits the number of calls of db.commit().
process_batch(b, d, now, commitOk) ==
    IF b.batch_buffer = <<>> THEN [bp |-> b, db |-> d, raised |-> FALSE, commits |-> 0]
    ELSE Looped(b, ApplyItems([db |-> d, buffer |-> b.batch_buffer,
                               processed |-> b.total_processed,
                               errors |-> b.total_errors], 1, now), commitOk)

\* An add_record that lets the buffer grow past batch_size before it processes
AddLate(b, d, item, now, commitOk) ==
    IF Len(b.batch_buffer) + 1 > BatchSize
    THEN process_batch([b EXCEPT !.batch_buffer = Append(@, item)], d, now, commitOk)
    ELSE [bp |-> [b EXCEPT !.batch_buffer = Append(@, item)], db |-> d, raised |-> FALSE,
          commits |-> 0]

\* BatchProcessor.add_record
add_record(b, d, item, now, commitOk) ==
    IF Len(b.batch_buffer) + 1 >= BatchSize
    THEN process_batch([b EXCEPT !.batch_buffer = Append(@, item)], d, now, commitOk)
    ELSE [bp |-> [b EXCEPT !.batch_buffer = Append(@, item)], db |-> d, raised |-> FALSE,
          commits |-> 0]

\* The final commit of flush (lines 105-112); p is the outcome of the residual
\* batch, c of the commit
FlushCommitted(p, c) ==
    IF c.raised
    THEN [bp |-> p.bp, db |-> SessRollback(c.db), raised |-> TRUE, commits |-> p.commits + 1]
    ELSE [bp |-> p.bp, db |-> c.db, raised |-> FALSE, commits |-> p.commits + 1]

Flushed(p, finalOk) ==
    IF p.raised THEN p ELSE FlushCommitted(p, SessCommit(p.db, finalOk))

\* A flush that returns at once when the buffer is empty
FlushOnlyBuffered(b, d, now, commitOk, finalOk) ==
    IF b.batch_buffer = <<>> THEN [bp |-> b, db |-> d, raised |-> FALSE, commits |-> 0]
    ELSE Flushed(process_batch(b, d, now, commitOk), finalOk)

\* BatchProcessor.flush; commitOk is the batch's commit, finalOk the final one
flush(b, d, now, commitOk, finalOk) == Flushed(process_batch(b, d, now, commitOk), finalOk)

(***************************************************************************)
(* The Index Aligner (db.py).  es holds                                    *)
(*   enabled   ENABLE_ELASTICSEARCH is not "false"                         *)
(*   backend   DB_BACKEND                                                  *)
(*   docs      the documents of the index, per id                          *)
(*   connects  the number of connections to the search index attempted     *)
(*   calls     the number of alignment steps taken                         *)
(*   last      the outcome of the last alignment step, prev of the one     *)
(*             before                                                      *)
(***************************************************************************)
Backends == {"sqlite", "postgresql"}

NoIndexDoc ==
    [present |-> FALSE, title |-> "", ai_transcript |-> EmptyStr, ly_transcript |-> EmptyStr,
     last_updated |-> NoStamp]
EmptyIndex == [i \in Ids |-> NoIndexDoc]

\* run_elasticsearch_indexing(ivod_ids, full_mode): the selector of an alignment
Selector(ids, full_mode) == [ids |-> ids, full_mode |-> full_mode]

NoAlign ==
    [outcome |-> "none", selector |-> Selector({}, FALSE), updated |-> 0, skipped |-> 0, errors |-> 0]

NewIndex(enabled, backend) ==
    [enabled |-> enabled, backend |-> backend, docs |-> EmptyIndex, connects |-> 0,
     calls |-> 0, last |-> NoAlign, prev |-> NoAlign]

\* What the search index and the database do during one alignment:
\*   client   "ok", or "unreachable": the connection fails or ping() is false
\*   index    whether the index exists or can be created
\*   query    whether the Store answers the candidate query
\*   bulk     "ok", or "raises": es.bulk raises
\*   failing  the ids whose index operation the bulk response reports as failed
OkEnv == [client |-> "ok", index |-> TRUE, query |-> TRUE, bulk |-> "ok", failing |-> {}]

AlignEnvs(cands) ==
    {[OkEnv EXCEPT !.failing = F] : F \in {G \in SUBSET cands : Cardinality(G) <= 1}}
        \cup {[OkEnv EXCEPT !.client = "unreachable"], [OkEnv EXCEPT !.index = FALSE],
              [OkEnv EXCEPT !.query = FALSE], [OkEnv EXCEPT !.bulk = "raises"]}

\* The outcome of the probe's connection: ping() true, ping() false, or an error
Probes == {"ok", "no_ping", "raises"}

\* An alignment step that ended without indexing
Logged(e, outcome, sel) ==
    [e EXCEPT !.calls = @ + 1, !.prev = e.last,
              !.last = [NoAlign EXCEPT !.outcome = outcome, !.selector = sel]]

\* A probe that connects whatever the configuration says
ProbeAlways(e, probe) == [es |-> [e EXCEPT !.connects = @ + 1], available |-> probe = "ok"]

\* check_elasticsearch_available: no connection is made when the feature is
\* disabled
check_elasticsearch_available(e, probe) ==
    IF ~e.enabled THEN [es |-> e, available |-> FALSE]
    ELSE [es |-> [e EXCEPT !.connects = @ + 1], available |-> probe = "ok"]

\* The document built for a row (lines 275-281)
IndexDoc(obj) ==
    [present |-> TRUE, title |-> obj.title, ai_transcript |-> obj.ai_transcript,
     ly_transcript |-> obj.ly_transcript, last_updated |-> obj.last_updated]

\* obj.last_updated.isoformat(): on sqlite the column is Text, the value read
\* back is a str, and the call raises AttributeError
PrepareRaises(backend, obj) == backend = "sqlite" /\ obj.last_updated # NoStamp

\* compare_es_document: TRUE when the row needs indexing (es.get raises for a
\* document that is absent)
compare_es_document(docs, obj) ==
    IF ~docs[obj.ivod_id].present THEN TRUE
    ELSE ~(/\ obj.ai_transcript = docs[obj.ivod_id].ai_transcript
           /\ obj.ly_transcript = docs[obj.ivod_id].ly_transcript
           /\ obj.title = docs[obj.ivod_id].title)

\* An accounting that takes a failed item of the response for an indexed one
BulkCountsAll(st, item, failing) ==
    IF item.ivod_id \in failing THEN [st EXCEPT !.updated = @ + 1]
    ELSE [st EXCEPT !.updated = @ + 1, !.docs[item.ivod_id] = item.doc]

\* The items of a bulk response (lines 295-304, 321-330)
BulkItem(st, item, failing) ==
    IF item.ivod_id \in failing THEN [st EXCEPT !.errors = @ + 1]
    ELSE [st EXCEPT !.updated = @ + 1, !.docs[item.ivod_id] = item.doc]

RECURSIVE BulkItems(_, _, _)
BulkItems(st, batch, failing) ==
    IF batch = <<>> THEN st
    ELSE BulkItems(BulkItem(st, Head(batch), failing), Tail(batch), failing)

\* es.bulk(body=batch_docs) and the accounting of its outcome
es_bulk(st, env) ==
    IF env.bulk = "raises" THEN [st EXCEPT !.errors = @ + Len(st.batch), !.batch = <<>>]
    ELSE [BulkItems(st, st.batch, env.failing) EXCEPT !.batch = <<>>]

BatchFull(st, env) == IF Len(st.batch) >= EsBatchSize THEN es_bulk(st, env) ELSE st

LastBatch(st, env) == IF st.batch # <<>> THEN es_bulk(st, env) ELSE st

\* One turn of the loop of bulk_index_to_elasticsearch (lines 265-315)
IndexOne(st, obj, backend, env) ==
    IF ~compare_es_document(st.docs, obj) THEN [st EXCEPT !.skipped = @ + 1]
    ELSE IF PrepareRaises(backend, obj) THEN [st EXCEPT !.errors = @ + 1]
    ELSE BatchFull([st EXCEPT !.batch = Append(@, [ivod_id |-> obj.ivod_id,
                                                   doc |-> IndexDoc(obj)])], env)

RECURSIVE IndexAll(_, _, _, _)
IndexAll(st, records, backend, env) ==
    IF records = <<>> THEN st
    ELSE IndexAll(IndexOne(st, Head(records), backend, env), Tail(records), backend, env)

\* Result: [docs, batch, updated, skipped, errors]
bulk_index_to_elasticsearch(docs, records, backend, env) ==
    LastBatch(IndexAll([docs |-> docs, batch |-> <<>>, updated |-> 0, skipped |-> 0,
                        errors |-> 0], records, backend, env), env)

\* The candidate query (lines 370-387): the rows with the given ids, or every
\* row, or the rows updated in the past 7 days
Candidates(rows, sel, now) ==
    IF sel.ids # {} THEN {i \in sel.ids : HasRow(rows, i)}
    ELSE IF sel.full_mode THEN {i \in Ids : HasRow(rows, i)}
    ELSE {i \in Ids : HasRow(rows, i) /\ rows[i].last_updated.t >= now - RecentWindow}

RECURSIVE RowsOf(_, _)
RowsOf(rows, S) ==
    IF S = {} THEN <<>>
    ELSE <<rows[CHOOSE i \in S : \A j \in S : i <= j]>>
             \o RowsOf(rows, S \ {CHOOSE i \in S : \A j \in S : i <= j})

\* The end of run_elasticsearch_indexing (lines 395-404); st is the result of
\* the bulk indexing
Indexed(e, sel, st) ==
    [es |-> [e EXCEPT !.docs = st.docs, !.calls = @ + 1, !.prev = e.last,
                      !.last = [outcome |-> "aligned", selector |-> sel,
                                updated |-> st.updated, skipped |-> st.skipped,
                                errors |-> st.errors]],
     ret |-> IF st.errors = 0 THEN "True" ELSE "False"]

\* run_elasticsearch_indexing once enabled: the client, the index, the
\* candidates, the bulk indexing.  Result: [es, ret], ret what the call
\* returns, "raised" when it raises.
Connected(e, rows, sel, now, env) ==
    IF env.client # "ok" THEN [es |-> Logged(e, "no_client", sel), ret |-> "False"]
    ELSE IF ~env.index THEN [es |-> Logged(e, "no_index", sel), ret |-> "False"]
    ELSE IF ~env.query THEN [es |-> Logged(e, "raised", sel), ret |-> "raised"]
    ELSE IF Candidates(rows, sel, now) = {}
    THEN [es |-> Logged(e, "empty", sel), ret |-> "True"]
    ELSE Indexed(e, sel, bulk_index_to_elasticsearch(e.docs,
                             RowsOf(rows, Candidates(rows, sel, now)), e.backend, env))

run_elasticsearch_indexing(e, rows, sel, now, env) ==
    IF ~e.enabled THEN [es |-> Logged(e, "disabled", sel), ret |-> "True"]
    ELSE Connected([e EXCEPT !.connects = @ + 1], rows, sel, now, env)

\* The alignment step at the end of a workflow (lines 233-243, 332-342,
\* 559-571, 705-717): the probe c, then the alignment inside try/except
Probed(c, rows, sel, now, env) ==
    IF c.available THEN run_elasticsearch_indexing(c.es, rows, sel, now, env).es
    ELSE Logged(c.es, "skipped", sel)

WorkflowAlign(e, rows, sel, now, probe, env) ==
    Probed(check_elasticsearch_available(e, probe), rows, sel, now, env)

(***************************************************************************)
(* State shared by the specifications.                                     *)
(***************************************************************************)
\* ids: the ids fetch_ivod_list returns over the dates of the run, in order
\* (Full, Incremental), or the ivod_ids argument of run_fix (<<>>: None);
\* path: the error_log_path argument of run_fix ("none": None)
NoInput == [ids |-> <<>>, path |-> "none"]

NoDoc == MkDoc("none", DateMissing, DateMissing, NoTranscript, NoGazette, NoSpeech)
NoResult == [raised |-> FALSE, rec |-> NoRec]

\* Retry's breaker of one kind: last_<k>_date (0: None), <k>_consecutive_failures, <k>_should_stop
NewBreaker == [last_date |-> 0, consecutive_failures |-> 0, should_stop |-> FALSE]
NoBreakers == [ai |-> NewBreaker, ly |-> NewBreaker]

\* The ledger files: "env" is the file at ERROR_LOG_PATH, which log_failed_ivod
\* appends to; "arg" is a file at another path given to run_fix.
LedgerFiles == {"env", "arg"}
EmptyLedger == [f \in LedgerFiles |-> <<>>]

\* log_failed_ivod(ivod_id, error_type): one line "<id>,<phase>,<timestamp>" appended
\* to the file at ERROR_LOG_PATH.  A line's first field is kept as its kind (the
\* canonical decimal of an id ("canon"), another text int() accepts ("padded"),
\* or no integer ("invalid")) and its id; a line of white space only is "blank".
Line(id, phase) == [first |-> [k |-> "canon", id |-> id], phase |-> phase]

\* A logger that writes nothing
LogNothing(l, ivod_id, error_type) == l

log_failed_ivod(l, ivod_id, error_type) == [l EXCEPT !.env = Append(@, Line(ivod_id, error_type))]

\* read_failed_ivods_from_file: the ids of the lines whose first field int()
\* accepts, as a set
\* A reader that takes a line int() rejects for the id 1
ReadUnchecked(lines) ==
    {IF lines[i].first.k = "invalid" THEN 1 ELSE lines[i].first.id : i \in 1..Len(lines)}

read_failed_ivods_from_file(lines) ==
    {lines[i].first.id : i \in {j \in 1..Len(lines) : lines[j].first.k \notin {"invalid", "blank"}}}

\* A filter that compares the first field with the id as numbers
KeptNumeric(ln, ivod_id) ==
    ln.first.k # "blank" /\ ~(ln.first.k \in {"canon", "padded"} /\ ln.first.id = ivod_id)

\* remove_from_error_log: the lines that are not blank and whose first field is
\* not str(ivod_id) are kept
KeptLine(ln, ivod_id) ==
    ln.first.k # "blank" /\ ~(ln.first.k = "canon" /\ ln.first.id = ivod_id)

remove_from_error_log(l, ivod_id, path) ==
    [l EXCEPT ![path] = SelectSeq(@, LAMBDA ln : KeptLine(ln, ivod_id))]

\* The orders in which a set of ids may be iterated
SetOrders(S) ==
    {q \in [1..Cardinality(S) -> S] : \A i, j \in 1..Cardinality(S) : i # j => q[i] # q[j]}

Range(q) == {q[i] : i \in 1..Len(q)}

\* What the model records about a run, for stating properties:
\*   calls      per id, the number of process_ivod calls made
\*   adds       the number of add_record calls made
\*   addedIds   the ids of the records given to add_record
\*   failedIds  the ids whose turn of the loop ended in its except branch
\*   okIds      successfully_retried_ids, successfully_fixed_ids: the ids whose
\*              add_record call returned
\*   failDates  per kind, the dates of the Retry items that failed so far
\*   last       the last Retry item attempted, with failDates as it was before it
\*   ensured    whether the run has called check_and_create_database_tables
\*   rows0      the committed table when the run began
\*   stored1    the committed table after the first upsert of SpecUpsert
\*   commitFailed whether a commit of the run has failed
\*   result     what the workflow returned: "none" while running, "True", "False",
\*              "None", or "raised"
NoLast == [id |-> 0, kind |-> "", date |-> 0, failed |-> FALSE, failBefore |-> {}]
NoHist ==
    [calls |-> [i \in Ids |-> 0], adds |-> 0, addedIds |-> {}, failedIds |-> {}, okIds |-> {},
     failDates |-> [ai |-> {}, ly |-> {}],
     last |-> NoLast, ensured |-> FALSE, rows0 |-> EmptyTable, stored1 |-> EmptyTable, commitFailed |-> FALSE, result |-> "none"]

\* What a step records in hist: r the result of process_ivod, enqueued whether
\* add_record was called, failed whether it raised
Observed(h, id, r, enqueued, failed) ==
    [h EXCEPT !.calls[id] = @ + 1,
              !.adds = IF enqueued THEN @ + 1 ELSE @,
              !.addedIds = IF enqueued THEN @ \cup {id} ELSE @,
              !.failedIds = IF ~enqueued \/ failed THEN @ \cup {id} ELSE @,
              !.okIds = IF enqueued /\ ~failed THEN @ \cup {id} ELSE @,
              !.commitFailed = @ \/ failed]

\* ... and what a Retry step records of its item
RetryObserved(h, item, date, success) ==
    [h EXCEPT !.last = [id |-> item.id, kind |-> item.kind, date |-> date,
                        failed |-> ~success, failBefore |-> h.failDates[item.kind]],
              !.failDates[item.kind] = IF success THEN @ ELSE @ \cup {date}]

(***************************************************************************)
(* SpecAssemble: process_ivod applied to every document of DocsOn(1).      *)
(***************************************************************************)
InitAssemble ==
    /\ wf = "assemble"
    /\ pc = "start"
    /\ input = NoInput
    /\ todo = <<>>
    /\ db = NewSession(EmptyTable)
    /\ bp = NewBatchProcessor
    /\ ledger = EmptyLedger
    /\ breaker = NoBreakers
    /\ clock \in 0..MaxClock
    /\ doc \in DocsOn(1)
    /\ rec = NoResult
    /\ hist = NoHist
    /\ es = NewIndex(FALSE, "sqlite")

Assemble ==
    /\ wf = "assemble"
    /\ pc = "start"
    /\ rec' = process_ivod(doc, 1, clock)
    /\ pc' = IF rec'.raised THEN "raised" ELSE "done"
    /\ UNCHANGED <<es, input, wf, todo, db, bp, ledger, breaker, clock, doc, hist>>

NextAssemble == Assemble

SpecAssemble == InitAssemble /\ [][NextAssemble]_vars

Assembled == wf = "assemble" /\ pc = "done"

\* C1: after process_ivod assembles a record, for each kind the status is
\* "success" exactly when the transcript is non-empty.
C1_StatusIffNonEmpty ==
    Assembled =>
        /\ (rec.rec.ai_status = "success") <=> (rec.rec.ai_transcript # EmptyStr)
        /\ (rec.rec.ly_status = "success") <=> (rec.rec.ly_transcript # EmptyStr)

(***************************************************************************)
(* Documents the workflows fetch.  The workflows read of a record only its *)
(* statuses, transcripts and retries, so one document per outcome is       *)
(* enough: each transcript present or absent, or a fetch that raises.      *)
(***************************************************************************)
GoodAi == Whisperx(<<JStr(<<"a">>)>>)
GoodLy == Blocks(<<Block(<< <<"a">> >>)>>)
WorkDocs(date) ==
    {MkDoc("ok", DateOk(date), DateOk(date), t, g, NoSpeech) :
        t \in {GoodAi, NoTranscript}, g \in {GoodLy, NoGazette}}
    \cup {MkDoc("error", DateOk(date), DateOk(date), NoTranscript, NoGazette, NoSpeech)}

\* The documents of a Retry run in SpecRetry: both transcripts present, both
\* absent, or a fetch that raises.
OutcomeDocs(date) ==
    {MkDoc("ok", DateOk(date), DateOk(date), GoodAi, GoodLy, NoSpeech),
     MkDoc("ok", DateOk(date), DateOk(date), NoTranscript, NoGazette, NoSpeech),
     MkDoc("error", DateOk(date), DateOk(date), NoTranscript, NoGazette, NoSpeech)}

\* A row as a workflow leaves it for a document of WorkDocs, stamped by the
\* Batch Processor at time t, with the retries the row may have accumulated.
StoredRows(id, date) ==
    {[ivod_id |-> id, date |-> date, title |-> "t",
      ai_transcript |-> IF a = "success" THEN <<"a">> ELSE EmptyStr,
      ai_status |-> a, ai_retries |-> IF a = "success" THEN 0 ELSE 1,
      ly_transcript |-> IF l = "success" THEN <<"a">> ELSE EmptyStr,
      ly_status |-> l, ly_retries |-> IF l = "success" THEN 0 ELSE 1,
      last_updated |-> LocalNow(0)] : a \in {"success", "failed"}, l \in {"success", "failed"}}

(***************************************************************************)
(* The Retry workflow (tasks.py, run_retry).                               *)
(***************************************************************************)
Kinds == {"ai", "ly"}

\* db.query(IVODTranscript).filter(<k>_status == 'failed')
\*   .order_by(date.asc(), ivod_id.asc()).all(): MAX_RETRIES is not used
RowBefore(r1, r2) == r1.date < r2.date \/ (r1.date = r2.date /\ r1.ivod_id < r2.ivod_id)

RECURSIVE SortRows(_)
SortRows(S) ==
    IF S = {} THEN <<>>
    ELSE LET m == CHOOSE r \in S : \A o \in S \ {r} : RowBefore(r, o)
         IN  <<m>> \o SortRows(S \ {m})

query_failed(table, kind) ==
    SortRows({table[i] : i \in {j \in Ids : HasRow(table, j)
                                    /\ (IF kind = "ai" THEN table[j].ai_status
                                                       ELSE table[j].ly_status) = "failed"}})

Tagged(rows, kind) == [i \in 1..Len(rows) |-> [id |-> rows[i].ivod_id, kind |-> kind]]

\* list.sort(key=lambda x: (x[0].date, x[0].ivod_id)): stable insertion by key
KeyLeq(table, x, y) ==
    \/ table[x.id].date < table[y.id].date
    \/ table[x.id].date = table[y.id].date /\ x.id <= y.id

RECURSIVE InsertSorted(_, _, _)
InsertSorted(table, sorted, x) ==
    IF sorted = <<>> THEN <<x>>
    ELSE IF KeyLeq(table, Head(sorted), x)
    THEN <<Head(sorted)>> \o InsertSorted(table, Tail(sorted), x)
    ELSE <<x>> \o sorted

RECURSIVE StableSort(_, _)
StableSort(table, items) ==
    IF items = <<>> THEN <<>>
    ELSE InsertSorted(table, StableSort(table, SubSeq(items, 1, Len(items) - 1)), items[Len(items)])

\* The two lists put end to end and left as they are
MergedUnsorted(table) ==
    Tagged(query_failed(table, "ai"), "ai") \o Tagged(query_failed(table, "ly"), "ly")

all_retry_records(table) ==
    StableSort(table, Tagged(query_failed(table, "ai"), "ai") \o Tagged(query_failed(table, "ly"), "ly"))

\* The accounting of one failed item of a kind (lines 482-491, and again 524-544)
BreakerFailure(b, date) ==
    LET n == IF b.last_date = 0 \/ date - b.last_date <= 1
             THEN b.consecutive_failures + 1 ELSE 1
    IN  [last_date |-> date, consecutive_failures |-> n, should_stop |-> b.should_stop \/ n >= 3]

\* ... and of one that succeeded (lines 492-493)
BreakerSuccess(b) == [b EXCEPT !.consecutive_failures = 0]

StatusOf(r, kind) == IF kind = "ai" THEN r.ai_status ELSE r.ly_status

\* Time passes between the steps of a run.
ClockTick ==
    /\ pc = "loop"
    /\ clock < MaxClock
    /\ clock' = clock + 1
    /\ UNCHANGED <<es, input, wf, pc, todo, db, bp, ledger, breaker, doc, rec, hist>>

ClosedSession(rows) == [NewSession(rows) EXCEPT !.open = FALSE]

\* How the part of a workflow before its loop may end: the prelude check
\* (check_and_create_database_tables) returns False; or it passes, Session() is
\* called, and an error or an interruption arrives before the try statement is
\* entered; or the loop is reached.
StartOutcomes == {"ok", "prelude_failed", "raised"}

\* run_retry up to the loop: the prelude check, the session, the two queries,
\* the merge and the sort.  The queries (lines 418-424) run before the try
\* statement of line 443: when one raises, or the run is interrupted there,
\* the error leaves run_retry and no finally clause closes the session.
RetryStart ==
    /\ wf = "retry"
    /\ pc = "start"
    /\ \E outcome \in StartOutcomes :
        IF outcome = "ok"
        THEN /\ db' = NewSession(db.rows)
             /\ todo' = all_retry_records(db.rows)
             /\ pc' = "loop"
             /\ hist' = [hist EXCEPT !.ensured = TRUE, !.rows0 = db.rows]
        ELSE IF outcome = "raised"
        THEN /\ db' = NewSession(db.rows)
             /\ pc' = "raised"
             /\ hist' = [hist EXCEPT !.ensured = TRUE, !.rows0 = db.rows, !.result = "raised"]
             /\ UNCHANGED todo
        ELSE /\ pc' = "done"
             /\ hist' = [hist EXCEPT !.ensured = TRUE, !.result = "False"]
             /\ UNCHANGED <<db, todo>>
    /\ UNCHANGED <<es, input, wf, bp, ledger, breaker, clock, doc, rec>>

\* A skip that one stopped kind imposes on the items of both kinds
SkipWhenAnyStopped ==
    /\ wf = "retry"
    /\ pc = "loop"
    /\ todo # <<>>
    /\ \E k \in {"ai", "ly"} : breaker[k].should_stop
    /\ todo' = Tail(todo)
    /\ UNCHANGED <<es, input, wf, pc, db, bp, ledger, breaker, clock, doc, rec, hist>>

\* One turn of the loop of run_retry (lines 460-546) over the head of todo.
RetrySkip ==
    /\ wf = "retry"
    /\ pc = "loop"
    /\ todo # <<>>
    /\ breaker[Head(todo).kind].should_stop
    /\ todo' = Tail(todo)
    /\ UNCHANGED <<es, input, wf, pc, db, bp, ledger, breaker, clock, doc, rec, hist>>

RetryStep ==
    /\ wf = "retry"
    /\ pc = "loop"
    /\ todo # <<>>
    /\ ~breaker[Head(todo).kind].should_stop
    /\ \E item \in {Head(todo)} :
       \E d \in OutcomeDocs(db.tx[item.id].date), commitOk \in BOOLEAN :
       \E r \in {process_ivod(d, item.id, clock)} :
       \E success \in {~r.raised /\ StatusOf(r.rec, item.kind) = "success"} :
       \E b1 \in {IF success THEN BreakerSuccess(breaker[item.kind])
                  ELSE BreakerFailure(breaker[item.kind], db.tx[item.id].date)} :
            /\ rec' = r
            /\ todo' = Tail(todo)
            /\ IF r.raised
               THEN /\ ledger' = log_failed_ivod(ledger, item.id, "retry")
                    /\ breaker' = [breaker EXCEPT ![item.kind] = b1]
                    /\ hist' = RetryObserved(Observed(hist, item.id, r, FALSE, FALSE),
                                             item, db.tx[item.id].date, success)
                    /\ UNCHANGED <<bp, db>>
               ELSE \E a \in {add_record(bp, db, Item(r.rec, AllKeys, item.id), clock, commitOk)} :
                    /\ bp' = a.bp
                    /\ db' = a.db
                    /\ hist' = RetryObserved(Observed(hist, item.id, r, TRUE, a.raised),
                                             item, db.tx[item.id].date, success)
                    /\ IF a.raised
                       THEN /\ ledger' = log_failed_ivod(ledger, item.id, "retry")
                            /\ breaker' = [breaker EXCEPT ![item.kind] =
                                              BreakerFailure(b1, db.tx[item.id].date)]
                       ELSE /\ ledger' = ledger
                            /\ breaker' = [breaker EXCEPT ![item.kind] = b1]
    /\ UNCHANGED <<es, input, wf, pc, clock, doc>>

\* The end of the try statement of run_retry: flush, close the session
RetryFinish ==
    /\ wf = "retry"
    /\ pc = "loop"
    /\ todo = <<>>
    /\ \E commitOk \in BOOLEAN, finalOk \in BOOLEAN :
       \E f \in {flush(bp, db, clock, commitOk, finalOk)} :
            /\ bp' = f.bp
            /\ db' = SessClose(f.db)
            /\ pc' = IF f.raised THEN "raised" ELSE "align"
            /\ hist' = [hist EXCEPT !.result = IF f.raised THEN "raised" ELSE @,
                                    !.commitFailed = @ \/ f.raised]
    /\ UNCHANGED <<es, input, wf, todo, ledger, breaker, clock, doc, rec>>

\* The rest of run_retry (lines 557-571): the alignment of the ids retried, when
\* there are any; the function returns nothing
RetryAlign ==
    /\ wf = "retry"
    /\ pc = "align"
    /\ IF hist.okIds # {}
       THEN \E probe \in Probes, env \in AlignEnvs(hist.okIds) :
                es' = WorkflowAlign(es, db.rows, Selector(hist.okIds, FALSE), clock, probe, env)
       ELSE es' = es
    /\ pc' = "done"
    /\ hist' = [hist EXCEPT !.result = "None"]
    /\ UNCHANGED <<input, wf, todo, db, bp, ledger, breaker, clock, doc, rec>>

(***************************************************************************)
(* SpecRetry: one Retry run over a table of failed rows.                   *)
(***************************************************************************)
\* Tables of n failed rows with ids 1..n whose dates do not decrease with the id.
Weight(f) == IF f = "both" THEN 2 ELSE 1

RECURSIVE SumWeights(_, _)
SumWeights(fm, n) == IF n = 0 THEN 0 ELSE Weight(fm[n]) + SumWeights(fm, n - 1)

FailedRow(id, date, f) ==
    CHOOSE r \in StoredRows(id, date) :
        /\ (r.ai_status = "failed") <=> (f \in {"ai", "both"})
        /\ (r.ly_status = "failed") <=> (f \in {"ly", "both"})

MonotoneDates(n) ==
    {dm \in [1..n -> 1..MaxDate] : \A i \in 1..(n - 1) : dm[i] <= dm[i + 1]}

FailedKinds(n) ==
    {fm \in {[i \in 1..n |-> f] : f \in {"ai", "ly", "both"}} : SumWeights(fm, n) <= MaxRetryItems}

RetryTable(n, dm, fm) ==
    [i \in Ids |-> IF i <= n THEN FailedRow(i, dm[i], fm[i]) ELSE NoRec]

InitRetry ==
    /\ wf = "retry"
    /\ pc = "start"
    /\ input = NoInput
    /\ todo = <<>>
    /\ \E n \in 1..MaxId :
         \E dm \in MonotoneDates(n), fm \in FailedKinds(n) :
            db = ClosedSession(RetryTable(n, dm, fm))
    /\ bp = NewBatchProcessor
    /\ ledger = EmptyLedger
    /\ breaker = NoBreakers
    /\ clock = 1
    /\ doc = NoDoc
    /\ rec = NoResult
    /\ hist = NoHist
    /\ es = NewIndex(FALSE, "sqlite")

NextRetry == RetryStart \/ RetrySkip \/ RetryStep \/ RetryFinish \/ RetryAlign

SpecRetry == InitRetry /\ [][NextRetry]_vars

\* The dates d such that d, d+1 and d+2 are all in S
ThreeConsecutive(S) == {d \in S : d + 1 \in S /\ d + 2 \in S}

\* C2: once items of a kind have failed on three consecutive calendar dates, no
\* item of that kind dated after the third of them is fetched in the run.
C2_NoFetchAfterThreeFailingDates ==
    wf = "retry" =>
        \A d \in ThreeConsecutive(hist.last.failBefore) : hist.last.date <= d + 2

\* C3: a kind is never stopped while its failures in the run cover fewer than
\* three distinct calendar dates.
C3_StopNeedsThreeDates ==
    wf = "retry" =>
        \A k \in Kinds : breaker[k].should_stop => Cardinality(hist.failDates[k]) >= 3

\* The ids whose record was fetched once in the run and enqueued, in a run
\* that ended with every commit accepted
AttemptedOnce ==
    IF pc = "done" /\ ~hist.commitFailed /\ hist.result # "False"
    THEN {i \in hist.addedIds : hist.calls[i] = 1 /\ HasRow(db.rows, i)}
    ELSE {}

RetriesAfter(status, before, hadRow) ==
    IF status = "success" THEN 0 ELSE IF hadRow THEN before + 1 ELSE 1

\* C4: after an attempt the stored retries of a kind are 0 when its transcript
\* was fetched, and the previous stored value plus 1 when it was not (1 for
\* the first failure of a new row).
C4_RetriesResetOrIncrement ==
    \A i \in AttemptedOnce :
        /\ db.rows[i].ai_retries =
              RetriesAfter(db.rows[i].ai_status, hist.rows0[i].ai_retries, HasRow(hist.rows0, i))
        /\ db.rows[i].ly_retries =
              RetriesAfter(db.rows[i].ly_status, hist.rows0[i].ly_retries, HasRow(hist.rows0, i))

(***************************************************************************)
(* The Full workflow (tasks.py, run_full).                                 *)
(***************************************************************************)
\* The date of the document the API serves for an id
DocDate(id) == IF HasRow(db.rows, id) THEN db.rows[id].date ELSE 1

\* run_full up to the loops: the prelude check, the session, the id lists.
\* Lines 173-192 (Session(), the date validation, the Batch Processor) come
\* before the try statement of line 194.
FullStart ==
    /\ wf = "full"
    /\ pc = "start"
    /\ \E outcome \in StartOutcomes :
        IF outcome = "ok"
        THEN /\ db' = NewSession(db.rows)
             /\ todo' = input.ids
             /\ pc' = "loop"
             /\ hist' = [hist EXCEPT !.ensured = TRUE, !.rows0 = db.rows]
        ELSE IF outcome = "raised"
        THEN /\ db' = NewSession(db.rows)
             /\ pc' = "raised"
             /\ hist' = [hist EXCEPT !.ensured = TRUE, !.rows0 = db.rows, !.result = "raised"]
             /\ UNCHANGED todo
        ELSE /\ pc' = "done"
             /\ hist' = [hist EXCEPT !.ensured = TRUE, !.result = "False"]
             /\ UNCHANGED <<db, todo>>
    /\ UNCHANGED <<es, input, wf, bp, ledger, breaker, clock, doc, rec>>

\* One turn of the per-record loop of run_full (lines 203-221): process_ivod,
\* the existence query, add_record, and the except branch around all three
FullStep ==
    /\ wf = "full"
    /\ pc = "loop"
    /\ todo # <<>>
    /\ \E id \in {Head(todo)} :
       \E d \in OutcomeDocs(DocDate(id)), commitOk \in BOOLEAN :
       \E r \in {process_ivod(d, id, clock)} :
            /\ rec' = r
            /\ todo' = Tail(todo)
            /\ IF r.raised
               THEN /\ ledger' = log_failed_ivod(ledger, id, "processing")
                    /\ hist' = Observed(hist, id, r, FALSE, FALSE)
                    /\ UNCHANGED <<bp, db>>
               ELSE \E q \in {SessGet(db, id)} :
                    IF q.raised
                    THEN /\ ledger' = log_failed_ivod(ledger, id, "processing")
                         /\ db' = q.db
                         /\ hist' = Observed(hist, id, r, FALSE, FALSE)
                         /\ UNCHANGED bp
                    ELSE \E a \in {add_record(bp, q.db,
                                       Item(r.rec, AllKeys, IF HasRow(q.db.tx, id) THEN id ELSE 0),
                                       clock, commitOk)} :
                         /\ bp' = a.bp
                         /\ db' = a.db
                         /\ ledger' = IF a.raised
                                      THEN log_failed_ivod(ledger, id, "processing")
                                      ELSE ledger
                         /\ hist' = Observed(hist, id, r, TRUE, a.raised)
    /\ UNCHANGED <<es, input, wf, pc, breaker, clock, doc>>

\* The end of the try statement of run_full: flush, close the session
FullFinish ==
    /\ wf = "full"
    /\ pc = "loop"
    /\ todo = <<>>
    /\ \E commitOk \in BOOLEAN, finalOk \in BOOLEAN :
       \E f \in {flush(bp, db, clock, commitOk, finalOk)} :
            /\ bp' = f.bp
            /\ db' = SessClose(f.db)
            /\ pc' = IF f.raised THEN "raised" ELSE "align"
            /\ hist' = [hist EXCEPT !.result = IF f.raised THEN "raised" ELSE @,
                                    !.commitFailed = @ \/ f.raised]
    /\ UNCHANGED <<es, input, wf, todo, ledger, breaker, clock, doc, rec>>

\* The rest of run_full (lines 231-245): the alignment of the whole table, return True
FullAlign ==
    /\ wf = "full"
    /\ pc = "align"
    /\ \E probe \in Probes, env \in AlignEnvs({i \in Ids : HasRow(db.rows, i)}) :
            es' = WorkflowAlign(es, db.rows, Selector({}, TRUE), clock, probe, env)
    /\ pc' = "done"
    /\ hist' = [hist EXCEPT !.result = "True"]
    /\ UNCHANGED <<input, wf, todo, db, bp, ledger, breaker, clock, doc, rec>>

(***************************************************************************)
(* The Incremental workflow (tasks.py, run_incremental).                   *)
(***************************************************************************)
\* A refresh of both kinds whatever the stored row holds
NeedBoth(obj) == AiKeys \cup LyKeys

\* No refresh whatever the stored row holds
NeedNone(obj) == {}

\* The fields Incremental refreshes on a stored row: those of a kind whose
\* transcript is None or ""
NeedKeys(obj) ==
    (IF obj.ai_transcript = EmptyStr THEN AiKeys ELSE {})
        \cup (IF obj.ly_transcript = EmptyStr THEN LyKeys ELSE {})

\* full_rec.get("<k>_retries", 0)
PartialRec(r) ==
    [r EXCEPT !.ai_retries = IF @ = Absent THEN 0 ELSE @,
              !.ly_retries = IF @ = Absent THEN 0 ELSE @]

\* run_incremental up to the loop: the prelude check, the session, the set of
\* the ids listed over the frame.  Lines 261-273 (Session(), the id listing,
\* the Batch Processor) come before the try statement of line 275; the listing
\* catches Exception, not an interruption.
IncrementalStart ==
    /\ wf = "incremental"
    /\ pc = "start"
    /\ \E outcome \in StartOutcomes :
        IF outcome = "ok"
        THEN /\ db' = NewSession(db.rows)
             /\ todo' \in SetOrders(Range(input.ids))
             /\ pc' = "loop"
             /\ hist' = [hist EXCEPT !.ensured = TRUE, !.rows0 = db.rows]
        ELSE IF outcome = "raised"
        THEN /\ db' = NewSession(db.rows)
             /\ pc' = "raised"
             /\ hist' = [hist EXCEPT !.ensured = TRUE, !.rows0 = db.rows, !.result = "raised"]
             /\ UNCHANGED todo
        ELSE /\ pc' = "done"
             /\ hist' = [hist EXCEPT !.ensured = TRUE, !.result = "False"]
             /\ UNCHANGED <<db, todo>>
    /\ UNCHANGED <<es, input, wf, bp, ledger, breaker, clock, doc, rec>>

\* One turn of the loop of run_incremental (lines 276-320)
IncrementalStep ==
    /\ wf = "incremental"
    /\ pc = "loop"
    /\ todo # <<>>
    /\ todo' = Tail(todo)
    /\ \E id \in {Head(todo)} :
       \E g \in {SessGet(db, id)} :
            IF g.raised
            THEN /\ ledger' = log_failed_ivod(ledger, id, "incremental")
                 /\ db' = g.db
                 /\ hist' = [hist EXCEPT !.failedIds = @ \cup {id}]
                 /\ UNCHANGED <<bp, rec>>
            ELSE IF HasRow(g.db.tx, id) /\ NeedKeys(g.obj) = {}
            THEN /\ db' = g.db
                 /\ UNCHANGED <<bp, ledger, rec, hist>>
            ELSE \E d \in WorkDocs(DocDate(id)), commitOk \in BOOLEAN :
                 \E r \in {process_ivod(d, id, clock)} :
                    /\ rec' = r
                    /\ IF r.raised
                       THEN /\ ledger' = log_failed_ivod(ledger, id, "incremental")
                            /\ db' = g.db
                            /\ hist' = Observed(hist, id, r, FALSE, FALSE)
                            /\ UNCHANGED bp
                       ELSE \E a \in {add_record(bp, g.db,
                                          IF HasRow(g.db.tx, id)
                                          THEN Item(PartialRec(r.rec), NeedKeys(g.obj), id)
                                          ELSE Item(r.rec, AllKeys, 0),
                                          clock, commitOk)} :
                            /\ bp' = a.bp
                            /\ db' = a.db
                            /\ ledger' = IF a.raised
                                         THEN log_failed_ivod(ledger, id, "incremental")
                                         ELSE ledger
                            /\ hist' = Observed(hist, id, r, TRUE, a.raised)
    /\ UNCHANGED <<es, input, wf, pc, breaker, clock, doc>>

\* The end of the try statement of run_incremental: flush, close the session
IncrementalFinish ==
    /\ wf = "incremental"
    /\ pc = "loop"
    /\ todo = <<>>
    /\ \E commitOk \in BOOLEAN, finalOk \in BOOLEAN :
       \E f \in {flush(bp, db, clock, commitOk, finalOk)} :
            /\ bp' = f.bp
            /\ db' = SessClose(f.db)
            /\ pc' = IF f.raised THEN "raised" ELSE "align"
            /\ hist' = [hist EXCEPT !.result = IF f.raised THEN "raised" ELSE @,
                                    !.commitFailed = @ \/ f.raised]
    /\ UNCHANGED <<es, input, wf, todo, ledger, breaker, clock, doc, rec>>

\* The rest of run_incremental (lines 330-344): the alignment of the rows updated
\* lately, return True
IncrementalAlign ==
    /\ wf = "incremental"
    /\ pc = "align"
    /\ \E probe \in Probes, env \in AlignEnvs({i \in Ids : HasRow(db.rows, i)}) :
            es' = WorkflowAlign(es, db.rows, Selector({}, FALSE), clock, probe, env)
    /\ pc' = "done"
    /\ hist' = [hist EXCEPT !.result = "True"]
    /\ UNCHANGED <<input, wf, todo, db, bp, ledger, breaker, clock, doc, rec>>

(***************************************************************************)
(* The Fix workflow (tasks.py, run_fix).                                   *)
(***************************************************************************)
\* The ledger file a Fix run reads and removes from: none when ivod_ids is
\* given, else error_log_path, else the file at ERROR_LOG_PATH
FixPath ==
    IF input.ids # <<>> THEN "none" ELSE IF input.path = "none" THEN "env" ELSE input.path

\* run_fix up to the loop: the session (no prelude check), the target ids.
\* Lines 635-661 come before the try statement of line 663.
FixStart ==
    /\ wf = "fix"
    /\ pc = "start"
    /\ \E outcome \in StartOutcomes \ {"prelude_failed"} :
       IF outcome = "raised"
       THEN /\ db' = NewSession(db.rows)
            /\ pc' = "raised"
            /\ hist' = [hist EXCEPT !.rows0 = db.rows, !.result = "raised"]
            /\ UNCHANGED todo
       ELSE IF input.ids # <<>>
       THEN /\ todo' = input.ids
            /\ db' = NewSession(db.rows)
            /\ pc' = "loop"
            /\ hist' = [hist EXCEPT !.rows0 = db.rows]
       ELSE IF read_failed_ivods_from_file(ledger[FixPath]) = {}
       THEN /\ todo' = <<>>
            /\ db' = SessClose(NewSession(db.rows))
            /\ pc' = "done"
            /\ hist' = [hist EXCEPT !.rows0 = db.rows, !.result = "True"]
       ELSE /\ todo' \in SetOrders(read_failed_ivods_from_file(ledger[FixPath]))
            /\ db' = NewSession(db.rows)
            /\ pc' = "loop"
            /\ hist' = [hist EXCEPT !.rows0 = db.rows]
    /\ UNCHANGED <<es, input, wf, bp, ledger, breaker, clock, doc, rec>>

\* One turn of the loop of run_fix (lines 664-692)
FixStep ==
    /\ wf = "fix"
    /\ pc = "loop"
    /\ todo # <<>>
    /\ todo' = Tail(todo)
    /\ \E id \in {Head(todo)} :
       \E d \in OutcomeDocs(DocDate(id)), commitOk \in BOOLEAN :
       \E r \in {process_ivod(d, id, clock)} :
            /\ rec' = r
            /\ IF r.raised
               THEN /\ ledger' = log_failed_ivod(ledger, id, "fix_retry")
                    /\ hist' = Observed(hist, id, r, FALSE, FALSE)
                    /\ UNCHANGED <<bp, db>>
               ELSE \E g \in {SessGet(db, id)} :
                    IF g.raised
                    THEN /\ ledger' = log_failed_ivod(ledger, id, "fix_retry")
                         /\ db' = g.db
                         /\ hist' = Observed(hist, id, r, FALSE, FALSE)
                         /\ UNCHANGED bp
                    ELSE \E a \in {add_record(bp, g.db,
                                       Item(r.rec, AllKeys, IF HasRow(g.db.tx, id) THEN id ELSE 0),
                                       clock, commitOk)} :
                         /\ bp' = a.bp
                         /\ db' = a.db
                         /\ ledger' = IF a.raised THEN log_failed_ivod(ledger, id, "fix_retry")
                                      ELSE IF FixPath # "none"
                                      THEN remove_from_error_log(ledger, id, FixPath)
                                      ELSE ledger
                         /\ hist' = Observed(hist, id, r, TRUE, a.raised)
    /\ UNCHANGED <<es, input, wf, pc, breaker, clock, doc>>

\* The end of the try statement of run_fix: flush, close the session
FixFinish ==
    /\ wf = "fix"
    /\ pc = "loop"
    /\ todo = <<>>
    /\ \E commitOk \in BOOLEAN, finalOk \in BOOLEAN :
       \E f \in {flush(bp, db, clock, commitOk, finalOk)} :
            /\ bp' = f.bp
            /\ db' = SessClose(f.db)
            /\ pc' = IF f.raised THEN "raised" ELSE "align"
            /\ hist' = [hist EXCEPT !.result = IF f.raised THEN "raised" ELSE @,
                                    !.commitFailed = @ \/ f.raised]
    /\ UNCHANGED <<es, input, wf, todo, ledger, breaker, clock, doc, rec>>

\* The rest of run_fix (lines 703-720): the alignment of the ids fixed, when there
\* are any, return True
FixAlign ==
    /\ wf = "fix"
    /\ pc = "align"
    /\ IF hist.okIds # {}
       THEN \E probe \in Probes, env \in AlignEnvs(hist.okIds) :
                es' = WorkflowAlign(es, db.rows, Selector(hist.okIds, FALSE), clock, probe, env)
       ELSE es' = es
    /\ pc' = "done"
    /\ hist' = [hist EXCEPT !.result = "True"]
    /\ UNCHANGED <<input, wf, todo, db, bp, ledger, breaker, clock, doc, rec>>

\* An external interruption (KeyboardInterrupt) that arrives while a workflow is
\* in its try statement: no except clause catches it (they name Exception),
\* the finally clause closes the session, and the interruption leaves the run.
Workflows == {"full", "incremental", "retry", "fix"}

Interrupt ==
    /\ wf \in Workflows
    /\ pc = "loop"
    /\ db' = SessClose(db)
    /\ pc' = "raised"
    /\ hist' = [hist EXCEPT !.result = "interrupted"]
    /\ UNCHANGED <<es, input, wf, todo, bp, ledger, breaker, clock, doc, rec>>

(***************************************************************************)
(* SpecFull: one Full run over the id lists the API serves.                *)
(***************************************************************************)
\* Lists of up to MaxFullItems ids of 1..MaxFullId, an id possibly listed
\* more than once, in ascending order.
FullLists ==
    UNION {{l \in [1..n -> 1..MaxFullId] : \A i \in 1..(n - 1) : l[i] <= l[i + 1]} :
              n \in 0..MaxFullItems}

\* The table before the run: empty, or row 1 stored with both transcripts failed
FullTables == {EmptyTable, [EmptyTable EXCEPT ![1] = FailedRow(1, 1, "both")]}

InitFull ==
    /\ wf = "full"
    /\ pc = "start"
    /\ input \in [ids : FullLists, path : {"none"}]
    /\ todo = <<>>
    /\ db \in {ClosedSession(t) : t \in FullTables}
    /\ bp = NewBatchProcessor
    /\ ledger = EmptyLedger
    /\ breaker = NoBreakers
    /\ clock = 1
    /\ doc = NoDoc
    /\ rec = NoResult
    /\ hist = NoHist
    /\ es = NewIndex(FALSE, "sqlite")

NextFull == FullStart \/ FullStep \/ FullFinish \/ FullAlign

SpecFull == InitFull /\ [][NextFull]_vars

\* C5: no insert is issued for an id that has a stored row or another pending
\* insert, so the table holds at most one row per id.
C5_NoSecondInsert ==
    /\ \A i \in 1..Len(db.pending) : ~HasRow(db.tx, db.pending[i].ivod_id)
    /\ \A i, j \in 1..Len(db.pending) :
          i # j => db.pending[i].ivod_id # db.pending[j].ivod_id

\* C6: when the final flush returned normally, the records given to add_record
\* that are not in the table are counted by the error counter.
C6_VisibleOrCounted ==
    (wf = "full" /\ pc = "done" /\ hist.result = "True") =>
        Cardinality({i \in hist.addedIds : ~HasRow(db.rows, i)}) <= bp.total_errors

\* C7: once a commit has failed, at a boundary or in the final flush, the
\* run has ended as failed: it fetches no further id.
C7_CommitFailureEndsRun ==
    hist.commitFailed => (pc = "raised" /\ hist.result = "raised")


(***************************************************************************)
(* SpecFix: one Fix run, from an id list or from a ledger file.            *)
(***************************************************************************)
\* A line whose first field int() rejects, as a header or a line damaged by hand
InvalidLine == [first |-> [k |-> "invalid", id |-> 0], phase |-> "processing"]

\* The lines a ledger file may hold before the run: written by log_failed_ivod
\* for the ids 1..MaxFixId, or invalid
FixLines ==
    {Line(i, ph) : i \in 1..MaxFixId, ph \in {"processing", "fix_retry"}} \cup {InvalidLine}

FixFiles == UNION {[1..n -> FixLines] : n \in 0..MaxFixLines}

FixInputs ==
    {[ids |-> <<>>, path |-> p] : p \in {"none", "env", "arg"}}
        \cup {[ids |-> l, path |-> "none"] : l \in UNION {[1..n -> 1..MaxFixId] : n \in 1..MaxFixLines}}

InitFix ==
    /\ wf = "fix"
    /\ pc = "start"
    /\ input \in FixInputs
    /\ todo = <<>>
    /\ db \in {ClosedSession(t) : t \in FullTables}
    /\ bp = NewBatchProcessor
    /\ ledger \in [LedgerFiles -> FixFiles]
    /\ breaker = NoBreakers
    /\ clock = 1
    /\ doc = NoDoc
    /\ rec = NoResult
    /\ hist = NoHist
    /\ es = NewIndex(FALSE, "sqlite")

NextFix == FixStart \/ FixStep \/ FixFinish \/ FixAlign

SpecFix == InitFix /\ [][NextFix]_vars

\* The lines of the run's ledger file that carry an id
LinesOf(id) ==
    SelectSeq(ledger[FixPath], LAMBDA ln : ln.first.k # "invalid" /\ ln.first.id = id)

\* C9: at the end of a Fix run that read its ids from a ledger file, an id that
\* assembled successfully is on no line of the file, and an id that failed is on
\* exactly one line, with phase fix_retry.
C9_LedgerAfterFix ==
    (wf = "fix" /\ pc = "done" /\ FixPath # "none") =>
        \A id \in Ids :
            hist.calls[id] > 0 =>
                IF id \in hist.failedIds
                THEN Len(LinesOf(id)) = 1 /\ LinesOf(id)[1].phase = "fix_retry"
                ELSE LinesOf(id) = <<>>

(***************************************************************************)
(* SpecWork: one run of any of the four workflows over a few ids.          *)
(***************************************************************************)
NextIncremental == IncrementalStart \/ IncrementalStep \/ IncrementalFinish \/ IncrementalAlign

WorkLists ==
    UNION {{l \in [1..n -> 1..MaxWork] : \A i \in 1..(n - 1) : l[i] <= l[i + 1]} :
              n \in 0..MaxWork}

\* The table before the run: empty, or row 1 stored with each transcript
\* present or failed
WorkTables == {EmptyTable} \cup {[EmptyTable EXCEPT ![1] = r] : r \in StoredRows(1, 1)}

WorkFiles == UNION {[1..n -> {Line(i, "processing") : i \in 1..MaxWork}] : n \in 0..MaxWork}

InitWork ==
    /\ pc = "start"
    /\ todo = <<>>
    /\ bp = NewBatchProcessor
    /\ breaker = NoBreakers
    /\ clock = 1
    /\ doc = NoDoc
    /\ rec = NoResult
    /\ hist = NoHist
    /\ es \in {NewIndex(en, be) : en \in BOOLEAN, be \in Backends}
    /\ \/ /\ wf \in {"full", "incremental"}
          /\ input \in [ids : WorkLists, path : {"none"}]
          /\ db \in {ClosedSession(t) : t \in WorkTables}
          /\ ledger = EmptyLedger
       \/ /\ wf = "fix"
          /\ input \in [ids : WorkLists, path : {"none"}]
          /\ db \in {ClosedSession(t) : t \in WorkTables}
          /\ ledger \in {[EmptyLedger EXCEPT !.env = f] : f \in WorkFiles}
       \/ /\ wf = "retry"
          /\ input = NoInput
          /\ \E n \in 1..MaxWorkRows :
               \E dm \in MonotoneDates(n), fm \in FailedKinds(n) :
                  db = ClosedSession(RetryTable(n, dm, fm))
          /\ ledger = EmptyLedger

NextWork == NextFull \/ NextIncremental \/ NextRetry \/ NextFix \/ Interrupt

SpecWork == InitWork /\ [][NextWork]_vars

\* The phase tag of each workflow's ledger lines
PhaseTag ==
    [full |-> "processing", incremental |-> "incremental", retry |-> "retry", fix |-> "fix_retry"]

\* C8: in each workflow, a step whose process_ivod call raises enqueues nothing,
\* appends exactly one ledger line with the id and the workflow's phase tag, and
\* leaves the run in its loop at the next id.
C8_RaiseIsLoggedAndSkipped ==
    [][\A id \in Ids :
          (hist'.calls[id] = hist.calls[id] + 1 /\ rec'.raised) =>
              /\ bp' = bp
              /\ hist'.adds = hist.adds
              /\ ledger' = [ledger EXCEPT !.env = Append(@, Line(id, PhaseTag[wf]))]
              /\ pc' = "loop"
              /\ todo' = Tail(todo)]_vars

\* An Incremental run has logged the id whose fetch raised and has more ids to visit
C8_Witness ==
    /\ wf = "incremental"
    /\ pc = "loop"
    /\ rec.raised
    /\ todo # <<>>
    /\ ledger.env # <<>>
    /\ ledger.env[Len(ledger.env)].phase = "incremental"

(***************************************************************************)
(* SpecUpsert: one assembled record upserted twice, as the workflows do it *)
(* (existence check, add_record, flush), with time passing in between.     *)
(***************************************************************************)
UpsertAssemble ==
    /\ wf = "upsert"
    /\ pc = "start"
    /\ rec' = process_ivod(doc, 1, clock)
    /\ pc' = IF rec'.raised THEN "raised" ELSE "loop"
    /\ UNCHANGED <<es, input, wf, todo, db, bp, ledger, breaker, clock, doc, hist>>

Upsert ==
    /\ wf = "upsert"
    /\ pc = "loop"
    /\ \E commitOk \in BOOLEAN, finalOk \in BOOLEAN :
       \E g \in {SessGet(db, 1)} :
       \E a \in {add_record(bp, g.db,
                            Item(rec.rec, AllKeys, IF HasRow(g.db.tx, 1) THEN 1 ELSE 0),
                            clock, commitOk)} :
       \E f \in {IF a.raised THEN a ELSE flush(a.bp, a.db, clock, commitOk, finalOk)} :
            /\ bp' = f.bp
            /\ db' = f.db
            /\ pc' = IF f.raised THEN "raised" ELSE IF hist.adds = 1 THEN "done" ELSE "loop"
            /\ hist' = [hist EXCEPT !.adds = @ + 1,
                                    !.stored1 = IF hist.adds = 0 THEN f.db.rows ELSE @,
                                    !.commitFailed = @ \/ f.raised]
    /\ UNCHANGED <<es, input, wf, todo, ledger, breaker, clock, doc, rec>>

InitUpsert ==
    /\ wf = "upsert"
    /\ pc = "start"
    /\ input = NoInput
    /\ todo = <<>>
    /\ db \in {NewSession(t) : t \in WorkTables}
    /\ bp = NewBatchProcessor
    /\ ledger = EmptyLedger
    /\ breaker = NoBreakers
    /\ clock = 0
    /\ doc \in WorkDocs(1)
    /\ rec = NoResult
    /\ hist = NoHist
    /\ es = NewIndex(FALSE, "sqlite")

NextUpsert == UpsertAssemble \/ Upsert \/ ClockTick

SpecUpsert == InitUpsert /\ [][NextUpsert]_vars

\* C10 as amended: after the second upsert of the same record the table has the
\* rows it had after the first, and every field of each row but last_updated is
\* the same.
C10_IdempotentButStamp ==
    (wf = "upsert" /\ pc = "done") =>
        \A i \in Ids :
            /\ HasRow(db.rows, i) <=> HasRow(hist.stored1, i)
            /\ \A f \in DOMAIN NoRec \ {"last_updated"} : db.rows[i][f] = hist.stored1[i][f]

\* C10 as stated: after the second upsert of the same record the stored state
\* is the one after the first: the same rows, every field identical.
C10_Idempotent ==
    (wf = "upsert" /\ pc = "done") => db.rows = hist.stored1

\* Both upserts were committed, the second later than the first
C10_Witness ==
    /\ wf = "upsert"
    /\ pc = "done"
    /\ HasRow(hist.stored1, 1)
    /\ HasRow(db.rows, 1)
    /\ db.rows[1].last_updated.t > hist.stored1[1].last_updated.t

(***************************************************************************)
(* SpecAlign: alignments in a row with one selector over a Store that does *)
(* not change, as run_es (tasks.py) and ivod_es.py make them.              *)
(***************************************************************************)
AlignTables ==
    {[i \in Ids |-> IF i <= MaxAlignId THEN t[i] ELSE "none"] :
        t \in [1..MaxAlignId -> {"none", "success", "failed"}]}

AlignRow(id, status) ==
    IF status = "none" THEN NoRec
    ELSE CHOOSE r \in StoredRows(id, 1) : r.ai_status = status /\ r.ly_status = "success"

AlignStore(t) == [i \in Ids |-> AlignRow(i, t[i])]

Selectors ==
    {Selector({}, TRUE), Selector({}, FALSE)}
        \cup {Selector(S, FALSE) : S \in SUBSET (1..MaxAlignId) \ {{}}}

InitAlign ==
    /\ wf = "align"
    /\ pc = "loop"
    /\ input = NoInput
    /\ todo = <<>>
    /\ db \in {ClosedSession(AlignStore(t)) : t \in AlignTables}
    /\ bp = NewBatchProcessor
    /\ ledger = EmptyLedger
    /\ breaker = NoBreakers
    /\ clock = 0
    /\ doc = NoDoc
    /\ rec = NoResult
    /\ hist = NoHist
    /\ es \in {NewIndex(en, be) : en \in BOOLEAN, be \in Backends}

\* run_es(ivod_ids, full_mode): one call of run_elasticsearch_indexing; the
\* calls of a run use one selector
Align ==
    /\ wf = "align"
    /\ pc = "loop"
    /\ es.calls < MaxAlignCalls
    /\ \E sel \in {x \in Selectors : es.calls = 0 \/ x = es.last.selector} :
       \E env \in AlignEnvs(1..MaxAlignId) :
       \E a \in {run_elasticsearch_indexing(es, db.rows, sel, clock, env)} :
            /\ es' = a.es
            /\ hist' = [hist EXCEPT !.result = a.ret]
    /\ UNCHANGED <<input, wf, pc, todo, db, bp, ledger, breaker, clock, doc, rec>>

NextAlign == Align \/ ClockTick

SpecAlign == InitAlign /\ [][NextAlign]_vars

\* C13: the second of two alignments in a row with the same selector, with no
\* Store change in between, reports updated = 0 and errors = 0.
C13_SecondAlignIsNoop ==
    (wf = "align" /\ es.calls >= 2 /\ es.last.selector = es.prev.selector) =>
        (es.last.updated = 0 /\ es.last.errors = 0)

(***************************************************************************)
(* Properties of the four workflows, stated over SpecWork.                 *)
(***************************************************************************)
Ended == wf \in Workflows /\ pc \in {"done", "raised"}

\* C11: when a workflow has ended, by returning, by an error or by an
\* interruption, the Store session it opened is closed.
C11_SessionClosedOnExit == Ended => ~db.open

\* What each workflow returns when it completes
Returns == [full |-> "True", incremental |-> "True", retry |-> "None", fix |-> "True"]

\* C12: the alignment step ends every workflow with its normal result and
\* leaves the Store, the Batch Processor and the ledger as they are, whether the
\* Aligner is disabled, unreachable, fails or works; and while the Aligner is
\* disabled no connection to the search index is attempted.
C12_AlignerNeverFails ==
    /\ [](~es.enabled => es.connects = 0)
    /\ [][(wf \in Workflows /\ pc = "align") =>
             /\ pc' = "done"
             /\ hist'.result = Returns[wf]
             /\ db' = db /\ bp' = bp /\ ledger' = ledger]_vars

\* A Full run returned True after an alignment that reported errors
C12_Witness ==
    /\ wf = "full"
    /\ pc = "done"
    /\ hist.result = "True"
    /\ es.enabled
    /\ es.last.outcome = "aligned"
    /\ es.last.errors > 0

\* The fields of row i outside F have the values they had when the run began
KeptOutside(i, F) == \A f \in DOMAIN NoRec \ F : db.rows[i][f] = hist.rows0[i][f]

\* C14: after an Incremental run whose commits were all accepted, a row that had
\* one transcript and lacked the other, and whose reassembly was enqueued, was
\* reassembled once and differs from the stored row only in the fields of the
\* kind that was lacking and in last_updated, which is the time of the update.
C14_PartialUpdateFrame ==
    (wf = "incremental" /\ pc \in {"align", "done"} /\ ~hist.commitFailed) =>
        \A i \in hist.okIds :
            /\ (/\ HasRow(hist.rows0, i)
                /\ hist.rows0[i].ai_transcript # EmptyStr
                /\ hist.rows0[i].ly_transcript = EmptyStr) =>
                    /\ KeptOutside(i, LyKeys \cup {"last_updated"})
                    /\ db.rows[i].last_updated = LocalNow(clock)
                    /\ hist.calls[i] = 1
            /\ (/\ HasRow(hist.rows0, i)
                /\ hist.rows0[i].ai_transcript = EmptyStr
                /\ hist.rows0[i].ly_transcript # EmptyStr) =>
                    /\ KeptOutside(i, AiKeys \cup {"last_updated"})
                    /\ db.rows[i].last_updated = LocalNow(clock)
                    /\ hist.calls[i] = 1

\* An Incremental run filled in the LY transcript of a row that had only the AI one
C14_Witness ==
    /\ wf = "incremental"
    /\ pc = "done"
    /\ 1 \in hist.okIds
    /\ hist.rows0[1].ai_transcript # EmptyStr
    /\ hist.rows0[1].ly_transcript = EmptyStr
    /\ db.rows[1].ly_status = "success"
    /\ db.rows[1].ly_transcript # EmptyStr
    /\ db.rows[1].last_updated # hist.rows0[1].last_updated

\* The ids of an Incremental run that need reassembling: no row when the run
\* began, or a row with an empty AI or LY transcript
NeedsReassembly(i) ==
    /\ i \in Range(input.ids)
    /\ \/ ~HasRow(hist.rows0, i)
       \/ hist.rows0[i].ai_transcript = EmptyStr
       \/ hist.rows0[i].ly_transcript = EmptyStr

Fetched == \E i \in Ids : hist.calls[i] > 0

\* C16: a workflow fetches only after it has ensured the store schema, and a
\* workflow that returned failure has fetched nothing and written nothing.
C16_SchemaEnsuredBeforeFetch ==
    wf \in Workflows =>
        /\ Fetched => hist.ensured
        /\ hist.result = "False" =>
               (~Fetched /\ hist.adds = 0 /\ bp = NewBatchProcessor /\ ~db.open)

(***************************************************************************)
(* SpecDates: the date range of run_full.  A date string is modelled by    *)
(* its form k and, where it denotes a day, the day's number; days are      *)
(* numbered so that "2024-02-01" is day DefaultStart.  Forms: "none"       *)
(* (None), "empty" (""), "malformed" (strptime("%Y-%m-%d") raises),        *)
(* "loose" (as "2024-2-5": strptime accepts it, fromisoformat raises) and  *)
(* "iso" (as "2024-02-05": both accept it).                                *)
(***************************************************************************)
MaxDay == 5
DefaultStart == 2

Days == 0..MaxDay
IsoDate(d) == [k |-> "iso", day |-> d]
DateArgs ==
    {[k |-> f, day |-> 0] : f \in {"none", "empty", "malformed"}}
        \cup {[k |-> f, day |-> d] : f \in {"iso", "loose"}, d \in Days}

\* datetime.now().strftime("%Y-%m-%d"): the clock is not set before the
\* default start date
Todays == {IsoDate(d) : d \in DefaultStart..(MaxDay - 1)}

\* `not s`
Falsy(s) == s.k \in {"none", "empty"}

\* datetime.strptime(s, "%Y-%m-%d") and datetime.fromisoformat(s) return
StrptimeOk(s) == s.k \in {"iso", "loose"}
FromIsoOk(s) == s.k = "iso"

\* A validation that lets every date it can parse through
ValidateUnclamped(start_date, end_date, default_start, today, is_end_date) ==
    IF is_end_date
    THEN IF Falsy(end_date) \/ ~StrptimeOk(end_date) THEN today ELSE end_date
    ELSE IF Falsy(start_date) \/ ~StrptimeOk(start_date) THEN default_start ELSE start_date

_validate_date_range(start_date, end_date, default_start, today, is_end_date) ==
    IF is_end_date
    THEN IF Falsy(end_date) THEN today
         ELSE IF ~(StrptimeOk(end_date) /\ StrptimeOk(today)) THEN today
         ELSE IF end_date.day > today.day THEN today
         ELSE end_date
    ELSE IF Falsy(start_date) THEN default_start
         ELSE IF ~(StrptimeOk(start_date) /\ StrptimeOk(default_start)) THEN default_start
         ELSE IF start_date.day < default_start.day THEN default_start
         ELSE start_date

\* date_range(start_date, end_date): fromisoformat of both, then one date a
\* day from the first to the last inclusive, each by strftime("%Y-%m-%d")
date_range(start_date, end_date) ==
    IF ~(FromIsoOk(start_date) /\ FromIsoOk(end_date))
    THEN [raised |-> TRUE, dates |-> <<>>]
    ELSE [raised |-> FALSE,
          dates |-> [i \in 1..(end_date.day - start_date.day + 1) |->
                        IsoDate(start_date.day + i - 1)]]

NoDates ==
    [start |-> IsoDate(0), end |-> IsoDate(0), warned_start |-> FALSE,
     warned_end |-> FALSE, listed |-> {}]

InitDates ==
    /\ wf = "dates"
    /\ pc = "start"
    /\ input \in [start_date : DateArgs, end_date : DateArgs, today : Todays]
    /\ todo = <<>>
    /\ db = ClosedSession(EmptyTable)
    /\ bp = NewBatchProcessor
    /\ ledger = EmptyLedger
    /\ breaker = NoBreakers
    /\ clock = 0
    /\ doc = NoDoc
    /\ rec = NoResult
    /\ hist = NoDates
    /\ es = NewIndex(FALSE, "sqlite")

\* run_full, from the default dates to the entry of the loop over the dates
DatesStart ==
    /\ wf = "dates"
    /\ pc = "start"
    /\ \E actual_start \in {_validate_date_range(input.start_date, input.end_date,
                                IsoDate(DefaultStart), input.today, FALSE)} :
       \E actual_end \in {_validate_date_range(input.start_date, input.end_date,
                              IsoDate(DefaultStart), input.today, TRUE)} :
       \E r \in {date_range(actual_start, actual_end)} :
            /\ hist' = [hist EXCEPT
                           !.start = actual_start,
                           !.end = actual_end,
                           !.warned_start = ~Falsy(input.start_date)
                                                /\ input.start_date # actual_start,
                           !.warned_end = ~Falsy(input.end_date)
                                              /\ input.end_date # actual_end]
            /\ todo' = r.dates
            /\ pc' = IF r.raised THEN "raised" ELSE "loop"
    /\ UNCHANGED <<es, input, wf, db, bp, ledger, breaker, clock, doc, rec>>

\* One turn of the loop: fetch_ivod_list(br, date_str)
DatesList ==
    /\ wf = "dates"
    /\ pc = "loop"
    /\ todo # <<>>
    /\ hist' = [hist EXCEPT !.listed = @ \cup {Head(todo)}]
    /\ todo' = Tail(todo)
    /\ UNCHANGED <<es, input, wf, pc, db, bp, ledger, breaker, clock, doc, rec>>

DatesFinish ==
    /\ wf = "dates"
    /\ pc = "loop"
    /\ todo = <<>>
    /\ pc' = "done"
    /\ UNCHANGED <<es, input, wf, todo, db, bp, ledger, breaker, clock, doc, rec, hist>>

NextDates == DatesStart \/ DatesList \/ DatesFinish

SpecDates == InitDates /\ [][NextDates]_vars

\* C17: whatever start_date and end_date Full is given, every date it lists
\* lies between the default start date and today; a start before the default
\* start is replaced by it, an end after today by today, a malformed date by
\* its default, each with a warning.
C17_DatesClamped ==
    (wf = "dates" /\ pc # "start") =>
        /\ \A d \in hist.listed :
               d.k = "iso" /\ DefaultStart <= d.day /\ d.day <= input.today.day
        /\ (StrptimeOk(input.start_date) /\ input.start_date.day < DefaultStart) =>
               (hist.start = IsoDate(DefaultStart) /\ hist.warned_start)
        /\ (StrptimeOk(input.end_date) /\ input.end_date.day > input.today.day) =>
               (hist.end = input.today /\ hist.warned_end)
        /\ input.start_date.k = "malformed" =>
               (hist.start = IsoDate(DefaultStart) /\ hist.warned_start)
        /\ input.end_date.k = "malformed" =>
               (hist.end = input.today /\ hist.warned_end)
        /\ Falsy(input.start_date) => hist.start = IsoDate(DefaultStart)
        /\ Falsy(input.end_date) => hist.end = input.today

\* A run given a start before the default start and an end after today has
\* listed every date from the default start to today
C17_Witness ==
    /\ wf = "dates"
    /\ pc = "done"
    /\ input.start_date = IsoDate(DefaultStart - 1)
    /\ input.end_date = IsoDate(MaxDay)
    /\ input.today.day > DefaultStart
    /\ hist.listed = {IsoDate(d) : d \in DefaultStart..input.today.day}

(***************************************************************************)
(* SpecRetryLimit: one Retry run over a Store that holds failed rows of    *)
(* one date, the first of which may carry MAX_RETRIES retries of each      *)
(* failed kind (the columns ai_retries and ly_retries are plain integers,  *)
(* db.py lines 64 and 66, and crawler.py adds one to them for each failed  *)
(* fetch that is given the stored row).                                    *)
(***************************************************************************)
MAX_RETRIES == 5

RetriesOf(r, kind) == IF kind = "ai" THEN r.ai_retries ELSE r.ly_retries

ExhaustedRow(r) ==
    [r EXCEPT !.ai_retries = IF r.ai_status = "failed" THEN MAX_RETRIES ELSE @,
              !.ly_retries = IF r.ly_status = "failed" THEN MAX_RETRIES ELSE @]

InitRetryLimit ==
    /\ wf = "retry"
    /\ pc = "start"
    /\ input = NoInput
    /\ todo = <<>>
    /\ \E n \in 1..MaxId :
         \E fm \in FailedKinds(n), exhausted \in BOOLEAN :
            \E t \in {RetryTable(n, [i \in 1..n |-> 1], fm)} :
                db = ClosedSession([t EXCEPT ![1] = IF exhausted THEN ExhaustedRow(@) ELSE @])
    /\ bp = NewBatchProcessor
    /\ ledger = EmptyLedger
    /\ breaker = NoBreakers
    /\ clock = 1
    /\ doc = NoDoc
    /\ rec = NoResult
    /\ hist = NoHist
    /\ es = NewIndex(FALSE, "sqlite")

SpecRetryLimit == InitRetryLimit /\ [][NextRetry]_vars

\* C18: a Retry run attempts an item of kind k only for a row whose retries
\* of kind k, as the run found them, are fewer than MAX_RETRIES.
C18_ExhaustedRowsExcluded ==
    (wf = "retry" /\ hist.last.id # 0) =>
        RetriesOf(hist.rows0[hist.last.id], hist.last.kind) < MAX_RETRIES

(***************************************************************************)
(* Properties of the Fix workflow, stated over SpecFix.                    *)
(***************************************************************************)
\* The file holds no line whose first field is an integer: it is missing or
\* empty (both read as no line), or every line of it is invalid
NoValidId(lines) == \A i \in 1..Len(lines) : lines[i].first.k = "invalid"

\* C19: a Fix run that is given no ids and whose ledger file is missing, empty
\* or without a valid id ends in its first step, before its loop: it makes no
\* Fetcher call, no Store write and no change to the ledger, and when it
\* returns it returns success.
C19_EmptyLedgerFixIsNoop ==
    [][(wf = "fix" /\ pc = "start" /\ input.ids = <<>> /\ NoValidId(ledger[FixPath])) =>
          /\ pc' \in {"done", "raised"}
          /\ pc' = "done" => hist'.result = "True"
          /\ hist'.calls = hist.calls
          /\ hist'.adds = hist.adds
          /\ bp' = bp
          /\ db'.rows = db.rows
          /\ ledger' = ledger
          /\ es' = es]_vars

\* A Fix run over a ledger file that holds only invalid lines has returned
\* success, its session closed
C19_Witness ==
    /\ wf = "fix"
    /\ pc = "done"
    /\ input.ids = <<>>
    /\ ledger[FixPath] # <<>>
    /\ NoValidId(ledger[FixPath])
    /\ hist.result = "True"
    /\ \A i \in Ids : hist.calls[i] = 0
    /\ ~db.open

(***************************************************************************)
(* SpecBreakers: one Retry run over a Store whose failed rows, all of one   *)
(* date, differ in the kinds that failed.                                  *)
(***************************************************************************)
MixedKinds(n) ==
    {fm \in [1..n -> {"ai", "ly", "both"}] : SumWeights(fm, n) <= MaxRetryItems}

InitBreakers ==
    /\ wf = "retry"
    /\ pc = "start"
    /\ input = NoInput
    /\ todo = <<>>
    /\ \E n \in 1..MaxId :
         \E fm \in MixedKinds(n) :
            db = ClosedSession(RetryTable(n, [i \in 1..n |-> 1], fm))
    /\ bp = NewBatchProcessor
    /\ ledger = EmptyLedger
    /\ breaker = NoBreakers
    /\ clock = 1
    /\ doc = NoDoc
    /\ rec = NoResult
    /\ hist = NoHist
    /\ es = NewIndex(FALSE, "sqlite")

SpecBreakers == InitBreakers /\ [][NextRetry]_vars

OtherKind(k) == IF k = "ai" THEN "ly" ELSE "ai"

\* C20: a turn of Retry's loop over an item of one kind leaves the other
\* kind's breaker as it was, and an item whose own kind is not stopped is
\* attempted, whether or not the other kind is stopped.
C20_BreakersIndependent ==
    [][(wf = "retry" /\ pc = "loop" /\ todo # <<>> /\ todo' # todo) =>
          /\ breaker'[OtherKind(Head(todo).kind)] = breaker[OtherKind(Head(todo).kind)]
          /\ ~breaker[Head(todo).kind].should_stop =>
                 hist'.calls[Head(todo).id] = hist.calls[Head(todo).id] + 1]_vars

\* With the AI breaker stopped after three failures, an item of kind LY has
\* just been attempted and has failed, and the LY breaker counts that one
\* failure
C20_Witness ==
    /\ wf = "retry"
    /\ breaker.ai.should_stop
    /\ breaker.ai.consecutive_failures = 3
    /\ hist.last.kind = "ly"
    /\ hist.last.failed
    /\ breaker.ly.consecutive_failures = 1
    /\ ~breaker.ly.should_stop

(***************************************************************************)
(* SpecRuns: workflow runs one after another over the same Store and the   *)
(* same ledger, each run a process of its own (ivod_full.py,               *)
(* ivod_incremental.py, ivod_retry.py, ivod_fix.py call the run_* function *)
(* once).  input.run numbers the runs.                                     *)
(***************************************************************************)
MaxRuns == 2

\* The ids a run is given: one id, or two
RunInputs(w) ==
    IF w = "retry" THEN {<<>>} ELSE {<<1>>, <<1, 2>>}

\* A Store whose rows all failed for the AI transcript on one date: what the
\* last run, a Retry, may find
RunRetryTable ==
    RetryTable(MaxWorkRows, [i \in 1..MaxWorkRows |-> 1], [i \in 1..MaxWorkRows |-> "ai"])

InitRuns ==
    /\ pc = "start"
    /\ todo = <<>>
    /\ bp = NewBatchProcessor
    /\ breaker = NoBreakers
    /\ clock = 1
    /\ doc = NoDoc
    /\ rec = NoResult
    /\ hist = NoHist
    /\ es = NewIndex(FALSE, "sqlite")
    /\ ledger = EmptyLedger
    /\ \/ /\ wf \in Workflows
          /\ input \in {[ids |-> l, path |-> "none", run |-> 1] : l \in RunInputs(wf)}
          /\ db \in {ClosedSession(t) : t \in WorkTables}
       \/ /\ wf = "retry"
          /\ input = [ids |-> <<>>, path |-> "none", run |-> MaxRuns]
          /\ db = ClosedSession(RunRetryTable)

\* The process of a run ends, whatever the run left open, and the next
\* workflow is started: a new session over what is committed, a new Batch
\* Processor, new breakers
NewRun ==
    /\ wf \in Workflows
    /\ pc \in {"done", "raised"}
    /\ input.run < MaxRuns
    /\ \E w \in Workflows :
       \E l \in RunInputs(w) :
            /\ wf' = w
            /\ input' = [ids |-> l, path |-> "none", run |-> input.run + 1]
    /\ pc' = "start"
    /\ todo' = <<>>
    /\ db' = ClosedSession(db.rows)
    /\ bp' = NewBatchProcessor
    /\ breaker' = NoBreakers
    /\ rec' = NoResult
    /\ hist' = NoHist
    /\ UNCHANGED <<es, ledger, clock, doc>>

NextRuns == NextWork \/ ClockTick \/ NewRun

SpecRuns == InitRuns /\ [][NextRuns]_vars

C22_RowsNeverDeleted ==
    [][\A i \in Ids : HasRow(db.rows, i) => HasRow(db'.rows, i)]_vars

\* The second run, over a Store that held a row, has ended by a failed commit
\* that was rolled back, and the row is still there
C22_Witness ==
    /\ wf \in Workflows
    /\ input.run = 2
    /\ pc = "raised"
    /\ hist.commitFailed
    /\ HasRow(hist.rows0, 1)
    /\ HasRow(db.rows, 1)

(***************************************************************************)
(* SpecTwoFull: two Full runs at once, each a process with its own session *)
(* and Batch Processor, over one database and one ledger file.  Every      *)
(* fetch succeeds and the database accepts every COMMIT, so that what goes *)
(* wrong comes from the other run alone.  In this specification            *)
(*   db     is [store, sess]: the committed table, and per process what    *)
(*          its open transaction wrote (own), its pending objects and      *)
(*          whether its session is inactive or open                        *)
(*   pc, todo, bp, input, hist are functions of the process                *)
(* The database isolates as PostgreSQL does by default (READ COMMITTED): a *)
(* statement sees what is committed and the writes of its own transaction; *)
(* a write to a row that the other open transaction wrote waits for that   *)
(* transaction to end.                                                     *)
(***************************************************************************)
MaxTwoId == 3

Procs == {1, 2}
Other(p) == 3 - p

TwoLists ==
    UNION {{l \in [1..n -> 1..MaxTwoId] : \A i \in 1..(n - 1) : l[i] < l[i + 1]} :
              n \in 1..MaxTwoId}

NoOwn == [i \in Ids |-> NoRec]
NewProcSession == [own |-> NoOwn, pending |-> <<>>, inactive |-> FALSE, open |-> TRUE]

\* The session of process p as the operators of the Store take it
View(p) ==
    [rows |-> db.store,
     tx |-> [i \in Ids |-> IF db.sess[p].own[i] # NoRec THEN db.sess[p].own[i] ELSE db.store[i]],
     pending |-> db.sess[p].pending,
     inactive |-> db.sess[p].inactive,
     open |-> db.sess[p].open]

\* ... and back: d is the session of p after a step
ProcSession(d) ==
    [own |-> [i \in Ids |-> IF d.tx[i] # d.rows[i] THEN d.tx[i] ELSE NoRec],
     pending |-> d.pending, inactive |-> d.inactive, open |-> d.open]

Stored(p, d) == [store |-> d.rows, sess |-> [db.sess EXCEPT ![p] = ProcSession(d)]]

\* The rows a step of p wrote, in its transaction or by a commit
Wrote(p, d) == {i \in Ids : d.tx[i] # View(p).tx[i] \/ d.rows[i] # db.store[i]}

\* The step waits while it writes a row the other transaction wrote
Waits(p, d) == \E i \in Wrote(p, d) : db.sess[Other(p)].own[i] # NoRec

GoodDoc == MkDoc("ok", DateOk(1), DateOk(1), GoodAi, GoodLy, NoSpeech)

InitTwoFull ==
    /\ wf = "twofull"
    /\ pc = [p \in Procs |-> "loop"]
    /\ input \in [Procs -> TwoLists]
    /\ todo = input
    /\ db = [store |-> EmptyTable, sess |-> [p \in Procs |-> NewProcSession]]
    /\ bp = [p \in Procs |-> NewBatchProcessor]
    /\ ledger = EmptyLedger
    /\ breaker = NoBreakers
    /\ clock = 1
    /\ doc = NoDoc
    /\ rec = NoResult
    /\ hist = [p \in Procs |-> {}]
    /\ es = NewIndex(FALSE, "sqlite")

\* One turn of the per-record loop of run_full in process p (lines 203-221)
TwoFullStep(p) ==
    /\ wf = "twofull"
    /\ pc[p] = "loop"
    /\ todo[p] # <<>>
    /\ \E id \in {Head(todo[p])} :
       \E r \in {process_ivod(GoodDoc, id, clock)} :
       \E q \in {SessGet(View(p), id)} :
            /\ todo' = [todo EXCEPT ![p] = Tail(@)]
            /\ IF q.raised
               THEN /\ ~Waits(p, q.db)
                    /\ ledger' = log_failed_ivod(ledger, id, "processing")
                    /\ db' = Stored(p, q.db)
                    /\ UNCHANGED <<bp, hist>>
               ELSE \E a \in {add_record(bp[p], q.db,
                                  Item(r.rec, AllKeys, IF HasRow(q.db.tx, id) THEN id ELSE 0),
                                  clock, TRUE)} :
                    /\ ~Waits(p, a.db)
                    /\ bp' = [bp EXCEPT ![p] = a.bp]
                    /\ db' = Stored(p, a.db)
                    /\ ledger' = IF a.raised
                                 THEN log_failed_ivod(ledger, id, "processing")
                                 ELSE ledger
                    /\ hist' = [hist EXCEPT ![p] = IF a.raised THEN @ ELSE @ \cup {id}]
    /\ UNCHANGED <<es, input, wf, pc, breaker, clock, doc, rec>>

\* The end of the try statement of run_full in process p: flush, close
TwoFullFinish(p) ==
    /\ wf = "twofull"
    /\ pc[p] = "loop"
    /\ todo[p] = <<>>
    /\ \E f \in {flush(bp[p], View(p), clock, TRUE, TRUE)} :
            /\ ~Waits(p, f.db)
            /\ bp' = [bp EXCEPT ![p] = f.bp]
            /\ db' = Stored(p, SessClose(f.db))
            /\ pc' = [pc EXCEPT ![p] = IF f.raised THEN "raised" ELSE "done"]
    /\ UNCHANGED <<es, input, wf, todo, ledger, breaker, clock, doc, rec, hist>>

NextTwoFull == \E p \in Procs : TwoFullStep(p) \/ TwoFullFinish(p)

SpecTwoFull == InitTwoFull /\ [][NextTwoFull]_vars

\* C23: when both runs have ended, neither has failed, and every id a run
\* enqueued has its row in the Store.
C23_ConcurrentFullLosesNothing ==
    (wf = "twofull" /\ \A p \in Procs : pc[p] # "loop") =>
        \A p \in Procs :
            /\ pc[p] = "done"
            /\ \A i \in hist[p] : HasRow(db.store, i)

(***************************************************************************)
(* Properties of the Index Aligner, stated over SpecAlign.                 *)
(***************************************************************************)
\* The index document of row i carries the row's title and transcripts
Agrees(i) ==
    /\ es.docs[i].present
    /\ es.docs[i].title = db.rows[i].title
    /\ es.docs[i].ai_transcript = db.rows[i].ai_transcript
    /\ es.docs[i].ly_transcript = db.rows[i].ly_transcript

\* C24: after an alignment that reached the candidate query and reported
\* errors = 0, every row its selector selects has an index document with the
\* row's title, ai_transcript and ly_transcript.  (An alignment of a disabled
\* index returns before it counts anything.)
C24_AlignedRowsIndexed ==
    (wf = "align" /\ es.last.outcome \in {"aligned", "empty"} /\ es.last.errors = 0) =>
        \A i \in Candidates(db.rows, es.last.selector, clock) : Agrees(i)

\* An alignment of the whole table has indexed two rows without an error
C24_Witness ==
    /\ wf = "align"
    /\ es.last.outcome = "aligned"
    /\ es.last.selector = Selector({}, TRUE)
    /\ es.last.errors = 0
    /\ es.last.updated = 2
    /\ Agrees(1)
    /\ Agrees(2)

(***************************************************************************)
(* SpecFetch: the outbound calls of the Fetcher (crawler.py) and the       *)
(* sleeps before them, in the order they happen.  hist is the sequence of  *)
(* these events; durations are in tenths of a second.                      *)
(***************************************************************************)
MaxEvents == 4
MinSleep == 5
MaxSleep == 20
SpeechMinSleep == 2
SpeechMaxSleep == 20

Call(kind) == [e |-> kind, d |-> 0]

\* random_sleep(min_sec, max_sec): the sleeps random.uniform may choose
random_sleep(min_sec, max_sec) == {[e |-> "sleep", d |-> x] : x \in min_sec..max_sec}

InitFetch ==
    /\ wf = "fetch"
    /\ pc = "loop"
    /\ input = NoInput
    /\ todo = <<>>
    /\ db = ClosedSession(EmptyTable)
    /\ bp = NewBatchProcessor
    /\ ledger = EmptyLedger
    /\ breaker = NoBreakers
    /\ clock = 0
    /\ doc = NoDoc
    /\ rec = NoResult
    /\ hist = <<>>
    /\ es = NewIndex(FALSE, "sqlite")

\* fetch_ivod_list: br.open(url), and session.get(url) when that raises
ListIds ==
    /\ wf = "fetch"
    /\ Len(hist) + 2 <= MaxEvents
    /\ \E fallback \in BOOLEAN :
         hist' = hist \o <<Call("list_ids")>>
                      \o (IF fallback THEN <<Call("list_ids")>> ELSE <<>>)
    /\ UNCHANGED <<es, input, wf, pc, todo, db, bp, ledger, breaker, clock, doc, rec>>

\* fetch_ivod_info: br.open(url), and req_session.get(url) when that raises
GetRecord ==
    /\ wf = "fetch"
    /\ Len(hist) + 2 <= MaxEvents
    /\ \E fallback \in BOOLEAN :
         hist' = hist \o <<Call("get_record")>>
                      \o (IF fallback THEN <<Call("get_record")>> ELSE <<>>)
    /\ UNCHANGED <<es, input, wf, pc, todo, db, bp, ledger, breaker, clock, doc, rec>>

\* fetch_ly_speech: random_sleep(0.2, 2.0), then curl
GetSpeech ==
    /\ wf = "fetch"
    /\ Len(hist) + 2 <= MaxEvents
    /\ \E s \in random_sleep(SpeechMinSleep, SpeechMaxSleep) :
         hist' = hist \o <<s, Call("get_speech")>>
    /\ UNCHANGED <<es, input, wf, pc, todo, db, bp, ledger, breaker, clock, doc, rec>>

\* fetch_latest_date: br.open(url), and session.get(url) when that raises
LatestDate ==
    /\ wf = "fetch"
    /\ Len(hist) + 2 <= MaxEvents
    /\ \E fallback \in BOOLEAN :
         hist' = hist \o <<Call("latest_date")>>
                      \o (IF fallback THEN <<Call("latest_date")>> ELSE <<>>)
    /\ UNCHANGED <<es, input, wf, pc, todo, db, bp, ledger, breaker, clock, doc, rec>>

NextFetch == ListIds \/ GetRecord \/ GetSpeech \/ LatestDate

SpecFetch == InitFetch /\ [][NextFetch]_vars

\* C25: every outbound call of the Fetcher comes right after a sleep whose
\* duration lies between min_sleep and max_sleep.
C25_SleepBeforeEveryCall ==
    wf = "fetch" =>
        \A i \in 1..Len(hist) :
            hist[i].e # "sleep" =>
                /\ i > 1
                /\ hist[i - 1].e = "sleep"
                /\ MinSleep <= hist[i - 1].d
                /\ hist[i - 1].d <= MaxSleep

(***************************************************************************)
(* Properties of the Full workflow, stated over SpecFull.                  *)
(***************************************************************************)
\* C26: when an error escapes the traversal of run_full, the run does not
\* raise: it ends with its session closed and returns False.
C26_FullReturnsFalseOnError ==
    [][(wf = "full" /\ pc = "loop" /\ pc' \notin {"loop", "align"}) =>
          (pc' = "done" /\ hist'.result = "False" /\ ~db'.open)]_vars

\* C27: every last_updated that a run has written to the Store is an instant
\* stamped in UTC+8.
C27_WritesStampedUtc8 ==
    (wf = "full" /\ pc # "start" /\ hist.result # "False") =>
        \A i \in Ids :
            (HasRow(db.rows, i) /\ db.rows[i] # hist.rows0[i]) =>
                db.rows[i].last_updated.zone = "+08:00"

(***************************************************************************)
(* SpecBatch: a Batch Processor used on its own, as the tests of           *)
(* test_batch_processing.py use it: add_record calls, then flush.  hist    *)
(* counts the calls and keeps what the Batch Processor was before the last *)
(* one (before), the commits made before it (commits0), the item of the    *)
(* last add_record and the rows of the table at the start (rows0).         *)
(***************************************************************************)
MaxAdds == 5
MaxBatchId == 2

MaxVersion == 2

\* The record of id i as fetched on day v
BatchRec(i, v) == [process_ivod(GoodDoc, i, 0).rec EXCEPT !.date = v]

\* (record_data, ivod_id): a record of an id, given as new or as existing
BatchItems ==
    UNION {{Item(BatchRec(i, v), AllKeys, a) : a \in {0, i}, v \in 1..MaxVersion} :
              i \in 1..MaxBatchId}

NoBatchHist ==
    [adds |-> 0, commits |-> 0, failed |-> FALSE, flushed |-> FALSE,
     op |-> "none", raised |-> FALSE, before |-> NewBatchProcessor, commits0 |-> 0,
     item |-> Item(NoRec, {}, 0), rows0 |-> EmptyTable]

InitBatch ==
    /\ wf = "batch"
    /\ pc = "loop"
    /\ input = NoInput
    /\ todo = <<>>
    /\ db \in {NewSession(t) : t \in FullTables}
    /\ bp = NewBatchProcessor
    /\ ledger = EmptyLedger
    /\ breaker = NoBreakers
    /\ clock = 1
    /\ doc = NoDoc
    /\ rec = NoResult
    /\ hist = [NoBatchHist EXCEPT !.rows0 = db.rows]
    /\ es = NewIndex(FALSE, "sqlite")

\* batch_processor.add_record(record_data, ivod_id)
BatchAdd ==
    /\ wf = "batch"
    /\ pc = "loop"
    /\ hist.adds < MaxAdds
    /\ \E item \in BatchItems, commitOk \in BOOLEAN :
       \E a \in {add_record(bp, db, item, clock, commitOk)} :
            /\ bp' = a.bp
            /\ db' = a.db
            /\ hist' = [hist EXCEPT !.adds = @ + 1,
                                    !.commits = @ + a.commits,
                                    !.failed = @ \/ a.raised,
                                    !.op = "add",
                                    !.raised = a.raised,
                                    !.before = bp,
                                    !.commits0 = hist.commits,
                                    !.item = item]
    /\ UNCHANGED <<es, input, wf, pc, todo, ledger, breaker, clock, doc, rec>>

\* batch_processor.flush()
BatchFlush ==
    /\ wf = "batch"
    /\ pc = "loop"
    /\ \E commitOk \in BOOLEAN, finalOk \in BOOLEAN :
       \E f \in {flush(bp, db, clock, commitOk, finalOk)} :
            /\ bp' = f.bp
            /\ db' = f.db
            /\ pc' = IF f.raised THEN "raised" ELSE "done"
            /\ hist' = [hist EXCEPT !.commits = @ + f.commits,
                                    !.failed = @ \/ f.raised,
                                    !.flushed = TRUE,
                                    !.op = "flush",
                                    !.raised = f.raised,
                                    !.before = bp,
                                    !.commits0 = hist.commits]
    /\ UNCHANGED <<es, input, wf, todo, ledger, breaker, clock, doc, rec>>

NextBatch == BatchAdd \/ BatchFlush

SpecBatch == InitBatch /\ [][NextBatch]_vars

\* C28: before flush(), after n add_record calls none of which raised, the
\* number of commits is floor(floor(n / batch_size) / commit_interval).
C28_CommitEveryInterval ==
    (wf = "batch" /\ ~hist.flushed /\ ~hist.failed) =>
        hist.commits = (hist.adds \div BatchSize) \div CommitInterval

\* Enough add_record calls for one commit have been made, and one commit
C28_Witness ==
    /\ wf = "batch"
    /\ ~hist.flushed
    /\ ~hist.failed
    /\ hist.adds = BatchSize * CommitInterval
    /\ hist.commits = 1
    /\ bp.batch_count = CommitInterval

\* C29: after an add_record that returned normally the buffer holds fewer
\* than batch_size items; the call processed a batch exactly when the buffer
\* reached batch_size, and then the buffer is empty.
C29_BufferBelowBatchSize ==
    (wf = "batch" /\ hist.op = "add" /\ ~hist.raised) =>
        /\ Len(bp.batch_buffer) < BatchSize
        /\ (bp.batch_count = hist.before.batch_count + 1) <=>
               (Len(hist.before.batch_buffer) + 1 >= BatchSize)
        /\ (bp.batch_count # hist.before.batch_count) => bp.batch_buffer = <<>>
        /\ (bp.batch_count = hist.before.batch_count) =>
               Len(bp.batch_buffer) = Len(hist.before.batch_buffer) + 1

\* An add_record has filled the buffer and processed it
C29_Witness ==
    /\ wf = "batch"
    /\ hist.op = "add"
    /\ ~hist.raised
    /\ Len(hist.before.batch_buffer) = BatchSize - 1
    /\ bp.batch_count = hist.before.batch_count + 1
    /\ bp.batch_buffer = <<>>
    /\ bp.total_processed = hist.before.total_processed + BatchSize

\* C30: when the application of an item of a batch raises, every item of the
\* batch is counted once, as processed or as an error, and no exception
\* leaves the Batch Processor.
C30_ItemErrorStaysInside ==
    (wf = "batch" /\ bp.total_errors > hist.before.total_errors) =>
        /\ ~hist.raised
        /\ (bp.total_processed - hist.before.total_processed)
             + (bp.total_errors - hist.before.total_errors)
               = Len(hist.before.batch_buffer) + (IF hist.op = "add" THEN 1 ELSE 0)

\* The session has nothing unsent and its transaction shows the committed rows
Settled(d) == d.pending = <<>> /\ d.tx = d.rows /\ ~d.inactive

\* C31: flush() applies every item left in the buffer and then commits, also
\* when the buffer is empty; when it returns the buffer is empty and the
\* session committed, and when a commit fails it has rolled back and raised.
C31_FlushProcessesThenCommits ==
    (wf = "batch" /\ hist.op = "flush") =>
        /\ (bp.total_processed - hist.before.total_processed)
             + (bp.total_errors - hist.before.total_errors)
               = Len(hist.before.batch_buffer)
        /\ hist.commits >= hist.commits0 + 1
        /\ Settled(db)
        /\ ~hist.raised => (bp.batch_buffer = <<>> /\ pc = "done")
        /\ hist.raised => pc = "raised"

\* A flush whose final commit failed after the residual items were applied
C31_Witness ==
    /\ wf = "batch"
    /\ hist.op = "flush"
    /\ hist.raised
    /\ hist.before.batch_buffer # <<>>
    /\ bp.batch_count % CommitInterval # 0
    /\ bp.total_processed = hist.before.total_processed + Len(hist.before.batch_buffer)
    /\ hist.commits = hist.commits0 + 1

\* The objects the session holds for id i: the row of its transaction and the
\* objects it has still to insert
RECURSIVE PendingFor(_, _)
PendingFor(objs, i) ==
    IF objs = <<>> THEN <<>>
    ELSE IF Head(objs).ivod_id = i THEN <<Head(objs)>> \o PendingFor(Tail(objs), i)
    ELSE PendingFor(Tail(objs), i)

ObjectsOf(d, i) == (IF HasRow(d.tx, i) THEN <<d.tx[i]>> ELSE <<>>) \o PendingFor(d.pending, i)

\* The positions of the items of a batch that carry the record of id i
Targets(batch, i) == {k \in 1..Len(batch) : batch[k].data.ivod_id = i}

LastTarget(batch, i) == batch[CHOOSE k \in Targets(batch, i) : \A j \in Targets(batch, i) : j <= k]

SameFields(row, data) == \A f \in DOMAIN row \ {"last_updated"} : row[f] = data[f]

\* The first batch, as the add_record that filled it found it
FirstBatch == Append(hist.before.batch_buffer, hist.item)

\* C32: when the items of a batch are applied, an id that several of them
\* target (and that had no row before) ends as one object of the session,
\* with the field values of the last of them.
C32_LaterItemWins ==
    (wf = "batch" /\ hist.op = "add" /\ hist.before.batch_count = 0 /\ bp.batch_count = 1
        /\ bp.total_errors = 0) =>
        \A i \in 1..MaxBatchId :
            (~HasRow(hist.rows0, i) /\ Targets(FirstBatch, i) # {}) =>
                /\ Len(ObjectsOf(db, i)) = 1
                /\ SameFields(ObjectsOf(db, i)[1], LastTarget(FirstBatch, i).data)

(***************************************************************************)
(* SpecRetryOrder: Retry runs over tables whose dates do not follow the    *)
(* ids and whose rows have failed in different kinds, so that the merged   *)
(* list is not sorted before run_retry sorts it.                           *)
(***************************************************************************)
MaxOrderRows == 3
MaxOrderDate == 2
MaxOrderItems == 3

OrderKinds(n) ==
    {fm \in [1..n -> {"ai", "ly", "both"}] : SumWeights(fm, n) <= MaxOrderItems}

\* A table long enough in one kind for its breaker to stop before the end
OrderLongTable ==
    RetryTable(MaxOrderRows + 1,
               [i \in 1..(MaxOrderRows + 1) |-> IF i % 2 = 1 THEN MaxOrderDate ELSE 1],
               [i \in 1..(MaxOrderRows + 1) |-> "ai"])

OrderTables ==
    UNION {{RetryTable(n, dm, fm) : dm \in [1..n -> 1..MaxOrderDate], fm \in OrderKinds(n)} :
              n \in 1..MaxOrderRows}
        \cup {OrderLongTable}

InitRetryOrder ==
    /\ wf = "retry"
    /\ pc = "start"
    /\ input = NoInput
    /\ todo = <<>>
    /\ db \in {ClosedSession(t) : t \in OrderTables}
    /\ bp = NewBatchProcessor
    /\ ledger = EmptyLedger
    /\ breaker = NoBreakers
    /\ clock = 1
    /\ doc = NoDoc
    /\ rec = NoResult
    /\ hist = NoHist
    /\ es = NewIndex(FALSE, "sqlite")

SpecRetryOrder == InitRetryOrder /\ [][NextRetry]_vars

LyDocs == {MkDoc("ok", DateOk(1), DateOk(1), GoodAi, g, s) : g \in Gazettes, s \in Speeches}

InitLy ==
    /\ wf = "assemble"
    /\ pc = "start"
    /\ input = NoInput
    /\ todo = <<>>
    /\ db = NewSession(EmptyTable)
    /\ bp = NewBatchProcessor
    /\ ledger = EmptyLedger
    /\ breaker = NoBreakers
    /\ clock = 1
    /\ doc \in LyDocs
    /\ rec = NoResult
    /\ hist = NoHist
    /\ es = NewIndex(FALSE, "sqlite")

SpecLy == InitLy /\ [][NextAssemble]_vars

\* gazette.blocks is a non-empty sequence
HasBlocks(d) == d.gazette.k = "obj" /\ d.gazette.bk = "list" /\ d.gazette.blocks # <<>>

\* C34: when gazette.blocks is not a non-empty sequence (no gazette, a gazette
\* without blocks, empty blocks), the LY transcript is the trimmed result of
\* the speech page, and the LY status is failed only when that is empty.
C34_SpeechWhenNoBlocks ==
    (Assembled /\ ~HasBlocks(doc)) =>
        /\ rec.rec.ly_transcript = fetch_ly_speech(doc.speech)
        /\ (rec.rec.ly_status = "failed") <=> (fetch_ly_speech(doc.speech) = EmptyStr)

(***************************************************************************)
(* Properties of the Retry workflow, stated over SpecRetry                 *)
(***************************************************************************)
\* The sub-record of a kind: its transcript, status and retries
SubRecord(r, kind) ==
    IF kind = "ai" THEN <<r.ai_transcript, r.ai_status, r.ai_retries>>
    ELSE <<r.ly_transcript, r.ly_status, r.ly_retries>>

\* C35: a Retry run leaves the sub-record of a kind as it was in every row
\* that had not failed in that kind, and so is retried for the other only.
C35_OtherKindUntouched ==
    wf = "retry" =>
        \A i \in Ids : \A kind \in Kinds :
            (HasRow(hist.rows0, i) /\ StatusOf(hist.rows0[i], kind) # "failed") =>
                SubRecord(db.rows[i], kind) = SubRecord(hist.rows0[i], kind)

(***************************************************************************)
(* SpecFullLate: Full runs over lists that name an id twice in the second  *)
(* batch and end with the id of a stored row, so that a batch whose commit *)
(* failed is applied again together with an update.                        *)
(***************************************************************************)
LateLists == {<<a, b, c, c, 1>> : a \in 2..3, b \in 2..3, c \in 3..MaxFullId}

InitFullLate ==
    /\ wf = "full"
    /\ pc = "start"
    /\ input \in [ids : LateLists, path : {"none"}]
    /\ todo = <<>>
    /\ db \in {ClosedSession(t) : t \in FullTables}
    /\ bp = NewBatchProcessor
    /\ ledger = EmptyLedger
    /\ breaker = NoBreakers
    /\ clock = 1
    /\ doc = NoDoc
    /\ rec = NoResult
    /\ hist = NoHist
    /\ es = NewIndex(FALSE, "sqlite")

SpecFullLate == InitFullLate /\ [][NextFull]_vars

\* C36: a step of a workflow in which the application of buffered items
\* raised adds a line to the Failure Ledger for each of them, and the
\* workflow goes on.
C36_ItemErrorsReachLedger ==
    [][(wf = "full" /\ bp'.total_errors > bp.total_errors) =>
          /\ Len(ledger'.env) >= Len(ledger.env) + (bp'.total_errors - bp.total_errors)
          /\ pc' = "loop"]_vars

(***************************************************************************)
(* SpecRemove: log_failed_ivod and remove_from_error_log applied to ledger *)
(* files that may not exist and may hold any kind of line.  hist holds     *)
(*   exists   whether each file exists                                     *)
(*   before   the files before the last call, and existed whether its file *)
(*            existed                                                      *)
(*   op, id, path   the last call                                          *)
(*   calls    the number of calls made                                     *)
(***************************************************************************)
MaxRemoveLines == 3
MaxRemoveId == 2
MaxRemoveCalls == 2

PaddedLine(id) == [first |-> [k |-> "padded", id |-> id], phase |-> "processing"]
BlankLine == [first |-> [k |-> "blank", id |-> 0], phase |-> ""]

RemoveLines ==
    {Line(i, "processing") : i \in 1..MaxRemoveId}
        \cup {PaddedLine(1), InvalidLine, BlankLine}

RemoveFiles == UNION {[1..n -> RemoveLines] : n \in 0..MaxRemoveLines}

InitRemove ==
    /\ wf = "remove"
    /\ pc = "loop"
    /\ input = NoInput
    /\ todo = <<>>
    /\ db = ClosedSession(EmptyTable)
    /\ bp = NewBatchProcessor
    /\ \E f \in RemoveFiles : ledger = [EmptyLedger EXCEPT !.arg = f]
    /\ breaker = NoBreakers
    /\ clock = 1
    /\ doc = NoDoc
    /\ rec = NoResult
    /\ \E e \in BOOLEAN :
         /\ (ledger.arg # <<>>) => e
         /\ hist = [exists |-> [env |-> FALSE, arg |-> e], before |-> ledger, existed |-> FALSE,
                    op |-> "none", id |-> 0, path |-> "none", calls |-> 0]
    /\ es = NewIndex(FALSE, "sqlite")

\* remove_from_error_log(ivod_id, path): nothing when the file does not exist
Remove ==
    /\ wf = "remove"
    /\ hist.calls < MaxRemoveCalls
    /\ \E id \in 1..MaxRemoveId, path \in LedgerFiles :
         /\ ledger' = IF hist.exists[path] THEN remove_from_error_log(ledger, id, path)
                      ELSE ledger
         /\ hist' = [hist EXCEPT !.before = ledger, !.existed = hist.exists[path],
                                 !.op = "remove", !.id = id, !.path = path,
                                 !.calls = @ + 1]
    /\ UNCHANGED <<es, input, wf, pc, todo, db, bp, breaker, clock, doc, rec>>

\* log_failed_ivod(ivod_id, error_type): open(path, "a") creates the file
LogFailed ==
    /\ wf = "remove"
    /\ hist.calls < MaxRemoveCalls
    /\ \E id \in 1..MaxRemoveId :
         /\ ledger' = log_failed_ivod(ledger, id, "processing")
         /\ hist' = [hist EXCEPT !.exists.env = TRUE, !.before = ledger,
                                 !.existed = hist.exists.env,
                                 !.op = "log", !.id = id, !.path = "env",
                                 !.calls = @ + 1]
    /\ UNCHANGED <<es, input, wf, pc, todo, db, bp, breaker, clock, doc, rec>>

NextRemove == Remove \/ LogFailed

SpecRemove == InitRemove /\ [][NextRemove]_vars

\* The positions of the lines of a file that are not blank and whose first
\* field is not the text of id
StayingAt(lines, id) ==
    {k \in 1..Len(lines) :
        lines[k].first.k # "blank" /\ (lines[k].first.k # "canon" \/ lines[k].first.id # id)}

\* The lines of a file at the positions of P, in their order
RECURSIVE Picked(_, _, _)
Picked(lines, P, k) ==
    IF k > Len(lines) THEN <<>>
    ELSE (IF k \in P THEN <<lines[k]>> ELSE <<>>) \o Picked(lines, P, k + 1)

\* C37: remove_from_error_log(id, path) leaves in the file the lines that are
\* not blank and whose first field is not id, unchanged and in their order;
\* it changes no other file, and a file that does not exist is not created.
C37_RemoveExactlyTheId ==
    (wf = "remove" /\ hist.op = "remove") =>
        /\ \A f \in LedgerFiles \ {hist.path} : ledger[f] = hist.before[f]
        /\ hist.existed =>
              ledger[hist.path] =
                  Picked(hist.before[hist.path], StayingAt(hist.before[hist.path], hist.id), 1)
        /\ ~hist.existed => (ledger = hist.before /\ ~hist.exists[hist.path])

\* A call has removed a line of the id from between lines that stayed, one of
\* them with the id written another way
C37_Witness ==
    /\ wf = "remove"
    /\ hist.op = "remove"
    /\ hist.existed
    /\ hist.id = 1
    /\ hist.before[hist.path] = <<PaddedLine(1), Line(1, "processing"), Line(2, "processing")>>
    /\ ledger[hist.path] = <<PaddedLine(1), Line(2, "processing")>>

(***************************************************************************)
(* Further properties of the Batch Processor, stated over SpecBatch        *)
(***************************************************************************)
\* C38: between the operations of the Batch Processor, the items processed,
\* those in error and those in the buffer add up to the add_record calls made.
C38_EveryItemCountedOnce ==
    wf = "batch" =>
        bp.total_processed + bp.total_errors + Len(bp.batch_buffer) = hist.adds

(***************************************************************************)
(* Further properties of the Fix workflow, stated over SpecFix             *)
(***************************************************************************)
\* The run has committed a record of the id to the table
CommittedInRun(id) == HasRow(db.rows, id) /\ db.rows[id] # hist.rows0[id]

\* C39: at the end of a Fix run that read its ids from a ledger file, an id
\* whose record was given to the Batch Processor and is on no line of the file
\* has its record committed to the table.
C39_RemovedOnlyIfCommitted ==
    (wf = "fix" /\ pc \in {"done", "raised"} /\ FixPath # "none") =>
        \A id \in hist.addedIds : LinesOf(id) = <<>> => CommittedInRun(id)

(***************************************************************************)
(* Properties of the four workflows, stated over SpecWork                  *)
(***************************************************************************)
\* C40: a workflow that runs to its end, with no failure of its prelude and no
\* error leaving it, returns True.
C40_CompletedRunReturnsTrue ==
    (wf \in Workflows /\ pc = "done" /\ hist.result # "False") => hist.result = "True"

====
